---- MODULE Spec2Model ----
(***************************************************************************)
(* Model of the school dashboard (world_language_app): the Attendance page *)
(* and its class-date derivation, the quarter activation of the Quarters   *)
(* page against the remote quarters table, the role-gated routing of       *)
(* AuthProvider / ProtectedRoute / SignIn, the Grading form of the         *)
(* classroom page, the attendance pivot and the grading table of the       *)
(* Reports page, two clients upserting the same keys, the persisted        *)
(* quarter store with its startup fetch, the Users page with the register  *)
(* routes, the PDF download, the month select and report fetch of the      *)
(* table-based Reports screen, and the sign-up form.                       *)
(*                                                                         *)
(* Representation.  A JavaScript Date at local midnight is the number of   *)
(* days since 1970-01-01; a yyyy-MM-dd string is the tuple <<y, m, d>>     *)
(* (the empty string is <<>>); parseISO and format convert between the two *)
(* by the civil-calendar rules.  A remote table is a bag of rows.          *)
(***************************************************************************)
EXTENDS Integers, Sequences, FiniteSets, Bags, TLC

(***************************************************************************)
(* Calendar: date-fns parseISO / format / isWeekend on date-only values.   *)
(***************************************************************************)

\* parseISO("yyyy-MM-dd"): the local-midnight Date of a civil date, as a day number.
parseISO(s) ==
    LET y   == IF s[2] <= 2 THEN s[1] - 1 ELSE s[1]
        era == y \div 400
        yoe == y - era * 400
        mp  == IF s[2] > 2 THEN s[2] - 3 ELSE s[2] + 9
        doy == (153 * mp + 2) \div 5 + s[3] - 1
        doe == yoe * 365 + yoe \div 4 - yoe \div 100 + doy
    IN  era * 146097 + doe - 719468

\* format(date, 'yyyy-MM-dd'): the civil date of a day number.
formatYMD(date) ==
    LET z   == date + 719468
        era == z \div 146097
        doe == z - era * 146097
        yoe == (doe - doe \div 1460 + doe \div 36524 - doe \div 146096) \div 365
        doy == doe - (365 * yoe + yoe \div 4 - yoe \div 100)
        mp  == (5 * doy + 2) \div 153
        d   == doy - (153 * mp + 2) \div 5 + 1
        m   == IF mp < 10 THEN mp + 3 ELSE mp - 9
        y   == yoe + era * 400 + (IF m <= 2 THEN 1 ELSE 0)
    IN  <<y, m, d>>

\* Date.getDay(): 0 = Sunday .. 6 = Saturday (1970-01-01 was a Thursday).
getDay(date) == (date + 4) % 7

WeekdayNames ==
    <<"Sunday", "Monday", "Tuesday", "Wednesday", "Thursday", "Friday", "Saturday">>

\* format(date, 'EEEE'): the English weekday name.
formatEEEE(date) == WeekdayNames[getDay(date) + 1]

\* isWeekend(date)
isWeekend(date) == getDay(date) \in {0, 6}

\* Ordering of yyyy-MM-dd strings (lexicographic, which is chronological).
DateLeq(a, b) ==
    \/ a[1] < b[1]
    \/ a[1] = b[1] /\ a[2] < b[2]
    \/ a[1] = b[1] /\ a[2] = b[2] /\ a[3] <= b[3]

(***************************************************************************)
(* Schedule date derivation: the classDates memo of the Attendance page.   *)
(* Date objects are mutable and shared by reference, so the loop runs on a *)
(* heap: heap[o] is the day number held by Date object o.                  *)
(***************************************************************************)

\* The scan with the break-date test made on the day after the one scanned.
RECURSIVE classDatesLoopBreakOnOffered(_, _, _, _, _, _)
classDatesLoopBreakOnOffered(heap, cur, dates, endDate, days, breakDates) ==
    IF heap[cur] > endDate
    THEN [i \in 1..Len(dates) |-> heap[dates[i]]]
    ELSE LET hit    == /\ formatEEEE(heap[cur]) \in days
                       /\ ~isWeekend(heap[cur])
                       /\ ~\E b \in breakDates : formatYMD(b) = formatYMD(heap[cur] + 1)
             pushed == IF hit THEN Append(dates, cur) ELSE dates
             moved  == [heap EXCEPT ![cur] = @ + 1]
             heap2  == Append(moved, moved[cur])
         IN  classDatesLoopBreakOnOffered(heap2, Len(heap2), pushed, endDate, days,
                                          breakDates)

\* The scan of Attendance.tsx lines 104-115.  cur is the object currentDate
\* refers to, dates the array of object references pushed so far.
RECURSIVE classDatesLoop(_, _, _, _, _, _)
classDatesLoop(heap, cur, dates, endDate, days, breakDates) ==
    IF heap[cur] > endDate
    THEN [i \in 1..Len(dates) |-> heap[dates[i]]]
    ELSE LET hit    == /\ formatEEEE(heap[cur]) \in days
                       /\ ~isWeekend(heap[cur])
                       /\ ~\E b \in breakDates : formatYMD(b) = formatYMD(heap[cur])
             pushed == IF hit THEN Append(dates, cur) ELSE dates
             \* currentDate.setDate(currentDate.getDate() + 1) advances the
             \* object in place; new Date(...) then allocates the next one.
             moved  == [heap EXCEPT ![cur] = @ + 1]
             heap2  == Append(moved, moved[cur])
         IN  classDatesLoop(heap2, Len(heap2), pushed, endDate, days, breakDates)

NoQuarter == [id |-> ""]

\* The classDates memo: the Date values of the array the loop returns.
computeClassDates(selClassroom, quarter, rooms) ==
    IF selClassroom = "" \/ quarter = NoQuarter THEN <<>>
    ELSE IF selClassroom \notin DOMAIN rooms THEN <<>>
    ELSE classDatesLoop(<<parseISO(quarter.start_date)>>, 1, <<>>,
                        parseISO(quarter.end_date),
                        rooms[selClassroom].days,
                        {parseISO(b) : b \in quarter.break_dates})

\* The date buttons: each offers format(date, 'yyyy-MM-dd') as the selection.
offeredDates(dates) == [i \in 1..Len(dates) |-> formatYMD(dates[i])]

(***************************************************************************)
(* State.                                                                  *)
(***************************************************************************)
VARIABLES
    \* Attendance page (src/pages/Attendance.tsx) and what it talks to
    activeQuarter,      \* useQuarterStore().activeQuarter, or NoQuarter
    classrooms,         \* the ["classrooms"] query data: id -> [days, students]
    selectedClassroom,  \* useState(""): classroom id or ""
    selectedDate,       \* useState(""): yyyy-MM-dd or <<>>
    attendanceRecords,  \* useState(new Map()): student id -> status
    classDates,         \* the useMemo value: Date values of the offered dates
    attendance,         \* remote table "attendance": a bag of rows
    queryCache,         \* react-query cache: query key -> data last delivered
    fetches,            \* reads in flight: query key -> "sent" or the rows read
    saveMutation,       \* saveAttendanceMutation: status and request in flight
    \* history of the Attendance page, read by the properties only
    staleStatus,        \* the students whose status in the map was set for an earlier selection
    saves,              \* the numbers of Save clicks and date selections so far
    \* Quarters page (src/pages/Quarters.tsx), one per client, and the store
    quarters,           \* remote table "quarters": id -> row, for the rows that exist
    created,            \* the quarter ids inserted so far (ids are not reused)
    activation,         \* client -> handleActivate mutation: status, target, row returned
    quarterStore,       \* client -> useQuarterStore().activeQuarter of that client
    \* AuthProvider, ProtectedRoute, SignIn and the router
    user,               \* useState<User | null>
    session,            \* useState<Session | null>
    role,               \* useState<string | null>
    loading,            \* useState(true)
    cookie,             \* the "supabaseSession" cookie, or NoCookie
    authSession,        \* the auth service: is the user signed in
    usersRole,          \* the role of the user's row of table "users", or NoRow
    fetchUser,          \* where the startup fetchUser() stands
    roleFetches,        \* role reads started by the auth listener and not yet resolved
    authEvents,         \* the number of auth state changes so far
    location,           \* the router's current path
    lastNav,            \* who navigated last: "user", "guard" or "signin"
    redirects,          \* guard redirects to "/" since the last user navigation or auth change
    \* Grading page (the Grading component of src/pages/ClassroomDetails.tsx)
    gradeClassroom,     \* useState(""): selectedClassroom of the Grading page
    selectedStudent,    \* useState(""): student id or ""
    gradeForm,          \* the react-hook-form values: seven scores and the comment
    formErrors,         \* formState.errors: the fields annotated with an error
    grading,            \* remote table "grading": a bag of rows
    gradeCache,         \* react-query cache: ["grades", ...] key -> data and status
    gradeFetches,       \* reads of "grading" in flight: key -> request and answer
    savingGrade,        \* savingGradeMutation: status and row in flight
    \* history of the Grading page, read by the properties only
    gradeWrites,        \* key -> the rows the store applied for it, oldest first
    formDirty,          \* has the form been edited since its last reset
    gradeCounts,        \* the numbers of submits and of student selections so far
    \* Reports page (src/pages/Reports.tsx)
    attendanceData,     \* the ["attendanceReport", ...] query data: rows, or NoData
    attendanceReportData, \* the useMemo value: [data |-> pivot rows, dates |-> columns]
    gradingData,        \* the ["gradingReport", ...] query data: rows
    \* two clients writing the same rows
    upserts,            \* client -> the upsert it has in flight
    applied,            \* table -> conflict key -> the rows applied for it, oldest first
    \* the persisted quarter store of one client (src/store/quartersStore.ts)
    storeLoading,       \* useQuarterStore().isLoading
    initFetch,          \* fetchActiveQuarter: "idle" or "sent"
    effectSeen,         \* the activeQuarter the effect of useInitActiveQuarter last ran with
    initFetches,        \* how many times fetchActiveQuarter was called since startup
    activeBefore,       \* the ids active in the remote table when Activate was last clicked
    \* Users page and the register routes (src/pages/Users.tsx, StudentForm.tsx)
    usersTable,         \* remote table "users": user id -> role
    profiles,           \* remote tables "students" and "teachers": a bag of rows
    usersData,          \* the ["users"] query data: user id -> [role, isRegistered]
    regRoute,           \* the route shown: the Users page or a register form
    \* PDF download of the Reports page (src/pages/Reports.tsx)
    isDownloading,      \* useState isDownloading
    pdfStep,            \* where the running downloadPDF call stands, and its file name
    pdfReportType,      \* useState reportType
    pdfFilters,         \* selectedClassroom && selectedMonth
    pdfAlerts,          \* number of alert() calls so far
    pdfSaved,           \* the file names passed to pdf.save, in order
    pdfClicks,          \* number of clicks on Download so far
    \* Table-based Reports screen (unnamed/part_002)
    tblClassroom,       \* useState selectedClassroom
    tblQuarter,         \* useState selectedQuarter
    tblMonth,           \* useState selectedMonth: <<yyyy, MM>>, or <<>> for ""
    tblReportType,      \* useState reportType
    tblStudents,        \* the ["students", classroom, reportType] keys with data
    tblInflight,        \* the fetchReportData calls awaiting their query
    reportData,         \* useState reportData
    tblSelects,         \* number of selections made so far
    \* Sign-up page (unnamed/part_001)
    authAccounts,       \* the emails with an account in Supabase auth
    pendingRows,        \* the emails with a row of role "pending" in table "users"
    signUpCall,         \* the running onSubmit call: its step and email
    signUpLoading,      \* useState loading
    signUpError,        \* useState error is set
    signUpSuccess,      \* useState success is set
    signUps             \* number of submissions so far

attVars == <<activeQuarter, classrooms, selectedClassroom, selectedDate,
             attendanceRecords, classDates, attendance, queryCache, fetches,
             saveMutation, staleStatus, saves>>

quarterVars == <<quarters, created, activation, quarterStore>>

authVars == <<user, session, role, loading, cookie, authSession, usersRole,
              fetchUser, roleFetches, authEvents, location, lastNav, redirects>>

gradeVars == <<gradeClassroom, selectedStudent, gradeForm, formErrors, grading,
               gradeCache, gradeFetches, savingGrade, gradeWrites, formDirty,
               gradeCounts>>

reportVars == <<attendanceData, attendanceReportData, gradingData>>

writerVars == <<upserts, applied>>

storeVars == <<storeLoading, initFetch, effectSeen, initFetches, activeBefore>>

\* The variables of the other pages, for the frame of the actions of one.
regVars == <<usersTable, profiles, usersData, regRoute>>

pdfVars == <<isDownloading, pdfStep, pdfReportType, pdfFilters, pdfAlerts, pdfSaved, pdfClicks>>

tblVars == <<tblClassroom, tblQuarter, tblMonth, tblReportType, tblStudents, tblInflight,
             reportData, tblSelects>>

signUpVars == <<authAccounts, pendingRows, signUpCall, signUpLoading, signUpError,
                signUpSuccess, signUps>>

notStoreVars == <<regVars, pdfVars, tblVars, signUpVars>>
notRegVars == <<storeVars, pdfVars, tblVars, signUpVars>>
notPdfVars == <<storeVars, regVars, tblVars, signUpVars>>
notTblVars == <<storeVars, regVars, pdfVars, signUpVars>>
notSignUpVars == <<storeVars, regVars, pdfVars, tblVars>>

sideVars == <<storeVars, regVars, pdfVars, tblVars, signUpVars>>

vars == <<attVars, quarterVars, authVars, gradeVars, reportVars, writerVars,
          sideVars>>

(***************************************************************************)
(* Attendance page.                                                        *)
(***************************************************************************)
Statuses == {"present", "absent", "tardy"}

EmptyMap == [s \in {} |-> "present"]

\* The composite key of an attendance row: onConflict of the upsert.
conflictKey(r) == <<r.classroom_id, r.student_id, r.class_date, r.quarter_id>>

\* The query key of the existingAttendance read.
attendanceKey(c, d, q) == <<"attendance", c, d, q.id>>

\* enabled: !!selectedClassroom && !!selectedDate && !!activeQuarter?.id
queryEnabled(c, d, q) == c # "" /\ d # <<>> /\ q # NoQuarter /\ q.id # ""

\* select("*").eq(classroom_id).eq(class_date).eq(quarter_id) on the table.
selectAttendance(table, key) ==
    LET hit == {r \in BagToSet(table) :
                  r.classroom_id = key[2] /\ r.class_date = key[3] /\ r.quarter_id = key[4]}
    IN  [r \in hit |-> table[r]]

\* upsert(records, {onConflict: key, ignoreDuplicates: false}): a stored row
\* with the key of a sent record is replaced by that record, the rest stay.
upsertInsertOnly(table, records) == table (+) SetToBag(records)

upsertIgnoreDuplicates(table, records) ==
    table (+) SetToBag({r \in records :
                          \A x \in BagToSet(table) : conflictKey(x) # conflictKey(r)})

upsert(table, records) ==
    LET keys == {conflictKey(r) : r \in records}
        kept == {x \in BagToSet(table) : conflictKey(x) \notin keys}
    IN  [x \in kept |-> table[x]] (+) SetToBag(records)

\* Array.from(attendanceRecords.entries()).map(...) of the mutationFn.
buildRecordsAllStudents(c, d, q, map, rooms) ==
    {[classroom_id |-> c, student_id |-> s, class_date |-> d, quarter_id |-> q.id,
      status |-> IF s \in DOMAIN map THEN map[s] ELSE "absent"]
        : s \in (DOMAIN map) \cup (IF c \in DOMAIN rooms THEN rooms[c].students ELSE {})}

buildRecords(c, d, q, map, rooms) ==
    {[classroom_id |-> c, student_id |-> s, class_date |-> d, quarter_id |-> q.id,
      status |-> map[s]] : s \in DOMAIN map}

\* new Map(existingAttendance.map(record => [record.student_id, record.status]))
recordsMap(data) ==
    LET rows == BagToSet(data)
        ids  == {r.student_id : r \in rows}
    IN  [s \in ids |-> (CHOOSE r \in rows : r.student_id = s).status]

\* A read in flight, and the classroom record of the ["classrooms"] query.
Sent == "sent"

currentKey == attendanceKey(selectedClassroom, selectedDate, activeQuarter)

\* The seeding effect, deps [existingAttendance], across a step that moves the
\* observed query from oldKey/oldCache to newKey/newCache.  It runs when the
\* data reference changes and does nothing while the data is undefined; a
\* refetch that returns equal rows keeps the reference (structural sharing).
seedEffect(oldKey, oldCache, newKey, newCache, map) ==
    IF newKey \notin DOMAIN newCache THEN map
    ELSE IF oldKey = newKey /\ oldKey \in DOMAIN oldCache
            /\ oldCache[oldKey] = newCache[newKey] THEN map
    ELSE recordsMap(newCache[newKey])

seedRan(oldKey, oldCache, newKey, newCache) ==
    /\ newKey \in DOMAIN newCache
    /\ ~(oldKey = newKey /\ oldKey \in DOMAIN oldCache
         /\ oldCache[oldKey] = newCache[newKey])

\* The observer of a newly observed key fetches it (staleTime 0), unless the
\* query is disabled or a fetch of that key is already in flight.
startFetch(inflight, key, enabled) ==
    IF enabled /\ key \notin DOMAIN inflight
    THEN [k \in DOMAIN inflight \cup {key} |->
            IF k = key THEN Sent ELSE inflight[k]]
    ELSE inflight

dropFetch(inflight, key) == [k \in DOMAIN inflight \ {key} |-> inflight[k]]

\* What a change of the selection to (c, d) does to the page: the memo, the
\* observed query, the seeding effect.
Reselect(c, d) ==
    LET newKey == attendanceKey(c, d, activeQuarter)
        newMap == seedEffect(currentKey, queryCache, newKey, queryCache,
                             attendanceRecords)
    IN  /\ selectedClassroom' = c
        /\ selectedDate' = d
        /\ classDates' = IF c = selectedClassroom THEN classDates
                         ELSE computeClassDates(c, activeQuarter, classrooms)
        /\ attendanceRecords' = newMap
        /\ staleStatus' = IF seedRan(currentKey, queryCache, newKey, queryCache)
                          THEN {}
                          ELSE DOMAIN attendanceRecords
        /\ fetches' = IF newKey = currentKey THEN fetches
                      ELSE startFetch(fetches, newKey, queryEnabled(c, d, activeQuarter))
        /\ saves' = IF d = selectedDate THEN saves
                    ELSE [saves EXCEPT !.selects = @ + 1]
        /\ UNCHANGED <<activeQuarter, classrooms, attendance, queryCache,
                       saveMutation>>
        /\ UNCHANGED <<quarterVars, authVars, gradeVars, reportVars, writerVars, sideVars>>

\* The page renders its controls only with an active quarter (line 155).
PageShown == activeQuarter # NoQuarter

\* <select onChange={(e) => setSelectedClassroom(e.target.value)}>
SelectClassroom(c) ==
    /\ PageShown
    /\ c \in {""} \cup DOMAIN classrooms
    /\ c # selectedClassroom
    /\ Reselect(c, selectedDate)

\* The most date selections a run makes.
MaxSelects == 2

\* A date button: setSelectedDate(format(date, 'yyyy-MM-dd'))
SelectDate(i) ==
    /\ PageShown
    /\ saves.selects < MaxSelects
    /\ selectedClassroom # ""
    /\ i \in 1..Len(classDates)
    /\ offeredDates(classDates)[i] # selectedDate
    /\ Reselect(selectedClassroom, offeredDates(classDates)[i])

FormShown == PageShown /\ selectedClassroom # "" /\ selectedDate # <<>>

\* handleStatusChange(student.id, status)
handleStatusChange(s, status) ==
    /\ FormShown
    /\ selectedClassroom \in DOMAIN classrooms
    /\ s \in classrooms[selectedClassroom].students
    /\ status \in Statuses
    /\ attendanceRecords' =
         [x \in DOMAIN attendanceRecords \cup {s} |->
            IF x = s THEN status ELSE attendanceRecords[x]]
    /\ staleStatus' = staleStatus \ {s}
    /\ UNCHANGED <<activeQuarter, classrooms, selectedClassroom, selectedDate,
                   classDates, attendance, queryCache, fetches, saveMutation, saves>>
    /\ UNCHANGED <<quarterVars, authVars, gradeVars, reportVars, writerVars, sideVars>>

\* The mutation at rest; while one is in flight it carries the records sent
\* and the selection and map they were built from.
IdleSave == [st |-> "idle", records |-> {}, c |-> "", d |-> <<>>, q |-> "",
             map |-> EmptyMap, again |-> FALSE, replaced |-> FALSE]

\* The most Save clicks a run makes.
MaxSaves == 2

\* Save Attendance: saveAttendanceMutation.mutate(); the button is disabled
\* while the mutation is pending.  The records are built before the await.
SaveClick ==
    /\ FormShown
    /\ saveMutation.st = "idle"
    /\ activeQuarter.id # ""
    /\ saves.clicks < MaxSaves
    /\ saveMutation' =
         [st |-> "pending",
          records |-> buildRecords(selectedClassroom, selectedDate, activeQuarter,
                                   attendanceRecords, classrooms),
          c |-> selectedClassroom, d |-> selectedDate, q |-> activeQuarter.id,
          map |-> attendanceRecords, again |-> FALSE, replaced |-> FALSE]
    /\ saves' = [saves EXCEPT !.clicks = @ + 1]
    /\ UNCHANGED <<activeQuarter, classrooms, selectedClassroom, selectedDate,
                   attendanceRecords, classDates, attendance, queryCache, fetches,
                   staleStatus>>
    /\ UNCHANGED <<quarterVars, authVars, gradeVars, reportVars, writerVars, sideVars>>

\* The store applies the upsert of the request in flight.
StoreApplySave ==
    /\ saveMutation.st = "pending"
    /\ attendance' = upsert(attendance, saveMutation.records)
    /\ saveMutation' = [saveMutation EXCEPT
                          !.st = "resolved",
                          !.again = saveMutation.records # {}
                                    /\ \A r \in saveMutation.records :
                                         BagIn(r, attendance),
                          !.replaced = \E r \in saveMutation.records :
                                         \E x \in BagToSet(attendance) :
                                           conflictKey(x) = conflictKey(r) /\ x # r]
    /\ UNCHANGED <<activeQuarter, classrooms, selectedClassroom, selectedDate,
                   attendanceRecords, classDates, queryCache, fetches, staleStatus,
                   saves>>
    /\ UNCHANGED <<quarterVars, authVars, gradeVars, reportVars, writerVars, sideVars>>

\* The request fails: `if (error) throw error`.
StoreRejectSave ==
    /\ saveMutation.st = "pending"
    /\ saveMutation' = [saveMutation EXCEPT !.st = "rejected"]
    /\ UNCHANGED <<activeQuarter, classrooms, selectedClassroom, selectedDate,
                   attendanceRecords, classDates, attendance, queryCache, fetches,
                   staleStatus, saves>>
    /\ UNCHANGED <<quarterVars, authVars, gradeVars, reportVars, writerVars, sideVars>>

\* invalidateQueries of an observed key: a running fetch of it is cancelled
\* and a new one started.
invalidate(inflight, key, enabled) ==
    IF enabled
    THEN [k \in DOMAIN inflight \cup {key} |-> IF k = key THEN Sent ELSE inflight[k]]
    ELSE inflight

\* onSuccess of the mutation: invalidate ["attendance", selectedClassroom,
\* selectedDate, activeQuarter?.id] as the page holds them when it runs.
SaveSucceeded ==
    /\ saveMutation.st = "resolved"
    /\ saveMutation' = IdleSave
    /\ fetches' = invalidate(fetches, currentKey,
                             queryEnabled(selectedClassroom, selectedDate, activeQuarter))
    /\ UNCHANGED <<activeQuarter, classrooms, selectedClassroom, selectedDate,
                   attendanceRecords, classDates, attendance, queryCache,
                   staleStatus, saves>>
    /\ UNCHANGED <<quarterVars, authVars, gradeVars, reportVars, writerVars, sideVars>>

\* The mutation ends in error: nothing is invalidated, nothing retried.
SaveFailed ==
    /\ saveMutation.st = "rejected"
    /\ saveMutation' = IdleSave
    /\ UNCHANGED <<activeQuarter, classrooms, selectedClassroom, selectedDate,
                   attendanceRecords, classDates, attendance, queryCache, fetches,
                   staleStatus, saves>>
    /\ UNCHANGED <<quarterVars, authVars, gradeVars, reportVars, writerVars, sideVars>>

\* A read in flight is answered with the rows the store holds and reaches the
\* cache; the seeding effect runs if the observed data changed.
FetchSucceeded(k) ==
    /\ k \in DOMAIN fetches
    /\ LET newCache == [x \in DOMAIN queryCache \cup {k} |->
                          IF x = k THEN selectAttendance(attendance, k)
                          ELSE queryCache[x]]
           newMap   == seedEffect(currentKey, queryCache, currentKey, newCache,
                                  attendanceRecords)
       IN  /\ queryCache' = newCache
           /\ attendanceRecords' = newMap
           /\ staleStatus' =
                IF seedRan(currentKey, queryCache, currentKey, newCache)
                THEN {}
                ELSE staleStatus
    /\ fetches' = dropFetch(fetches, k)
    /\ UNCHANGED <<activeQuarter, classrooms, selectedClassroom, selectedDate,
                   classDates, attendance, saveMutation, saves>>
    /\ UNCHANGED <<quarterVars, authVars, gradeVars, reportVars, writerVars, sideVars>>

\* The read fails (`if (error) throw error`): the cached data stays as it was.
FetchFailed(k) ==
    /\ k \in DOMAIN fetches
    /\ fetches' = dropFetch(fetches, k)
    /\ UNCHANGED <<activeQuarter, classrooms, selectedClassroom, selectedDate,
                   attendanceRecords, classDates, attendance, queryCache,
                   saveMutation, staleStatus, saves>>
    /\ UNCHANGED <<quarterVars, authVars, gradeVars, reportVars, writerVars, sideVars>>

(***************************************************************************)
(* The Attendance page on one quarter and one classroom of two students.   *)
(***************************************************************************)
AttQuarters ==
    {[id |-> "q1", start_date |-> <<2024, 1, 1>>, end_date |-> <<2024, 1, 5>>,
      break_dates |-> {<<2024, 1, 2>>}]}

AttClassrooms ==
    [A |-> [days |-> {"Monday", "Wednesday"}, students |-> {"s1", "s2"}]]

\* The status buttons the runs click: two of the first student, one of the second.
Clicks == {<<"s1", "present">>, <<"s1", "absent">>, <<"s2", "tardy">>}

NoFunction == [x \in {} |-> x]

InitPage(storedQuarters, rooms) ==
    /\ activeQuarter \in storedQuarters
    /\ classrooms \in rooms
    /\ selectedClassroom = ""
    /\ selectedDate = <<>>
    /\ attendanceRecords = EmptyMap
    /\ classDates = <<>>
    /\ attendance = EmptyBag
    /\ queryCache = NoFunction
    /\ fetches = NoFunction
    /\ saveMutation = IdleSave
    /\ staleStatus = {}
    /\ saves = [clicks |-> 0, selects |-> 0]

InitAttendancePage == InitPage(AttQuarters, {AttClassrooms})

(***************************************************************************)
(* The class-date derivation over a range of quarters and schedules.       *)
(***************************************************************************)
DateSpans ==
    {<<<<2024, 1, 1>>, <<2024, 1, 14>>>>,    \* two weeks from a Monday
     <<<<2024, 2, 26>>, <<2024, 3, 4>>>>,    \* across the leap day
     <<<<2024, 1, 5>>, <<2024, 1, 5>>>>,     \* a single Friday
     <<<<2024, 1, 10>>, <<2024, 1, 5>>>>}    \* start after end

DateBreaks == {{}, {<<2024, 1, 8>>}, {<<2024, 1, 3>>, <<2024, 2, 29>>}}

DateDays ==
    {{}, {"Monday", "Wednesday"}, {"Friday"}, {"Saturday", "Monday"},
     {"Wednesday", "Thursday", "Friday"}}

DateQuarters ==
    {[id |-> "q1", start_date |-> span[1], end_date |-> span[2], break_dates |-> b]
        : span \in DateSpans, b \in DateBreaks}

DateClassrooms ==
    {[A |-> [days |-> days, students |-> {"s1"}]] : days \in DateDays}

InitDatesPage == InitPage(DateQuarters, DateClassrooms)

(***************************************************************************)
(* Quarters page: create, update, delete and the two-step activation, by   *)
(* two clients against the one remote table.                               *)
(***************************************************************************)
Clients == {"c1", "c2"}

QuarterIds == {"q1", "q2", "q3"}

\* The form data a quarter is created or updated with.
QuarterForms ==
    {[start_date |-> <<2024, 1, 1>>, end_date |-> <<2024, 1, 5>>,
      break_dates |-> {<<2024, 1, 2>>}],
     [start_date |-> <<2024, 1, 1>>, end_date |-> <<2024, 1, 14>>,
      break_dates |-> {}]}

FirstForm ==
    [start_date |-> <<2024, 1, 1>>, end_date |-> <<2024, 1, 5>>,
     break_dates |-> {<<2024, 1, 2>>}]

\* The row of a quarter as select() returns it.
quarterRow(id, row) ==
    [id |-> id, start_date |-> row.form.start_date, end_date |-> row.form.end_date,
     break_dates |-> row.form.break_dates, active |-> row.active]

activeIds(table) == {id \in DOMAIN table : table[id].active}

IdleActivation == [st |-> "idle", id |-> "", row |-> NoQuarter]

\* createQuarter.mutationFn: insert({..., active: false}).
createQuarter(id, form) ==
    /\ id \in QuarterIds \ created
    /\ form \in QuarterForms
    /\ quarters' = [q \in DOMAIN quarters \cup {id} |->
                      IF q = id THEN [form |-> form, active |-> FALSE]
                      ELSE quarters[q]]
    /\ created' = created \cup {id}
    /\ UNCHANGED <<activation, quarterStore>>
    /\ UNCHANGED <<attVars, authVars, gradeVars, reportVars, writerVars, sideVars>>

\* handleUpdate.mutationFn: update({name, start_date, end_date, break_dates})
\* .eq("id", id); a row that is gone matches nothing.
handleUpdate(id, form) ==
    /\ id \in created
    /\ form \in QuarterForms
    /\ quarters' = [q \in DOMAIN quarters |->
                      IF q = id THEN [quarters[q] EXCEPT !.form = form]
                      ELSE quarters[q]]
    /\ UNCHANGED <<created, activation, quarterStore>>
    /\ UNCHANGED <<attVars, authVars, gradeVars, reportVars, writerVars, sideVars>>

\* handleDelete.mutationFn: delete().eq("id", quarterId).
handleDelete(id) ==
    /\ id \in created
    /\ quarters' = [q \in DOMAIN quarters \ {id} |-> quarters[q]]
    /\ UNCHANGED <<created, activation, quarterStore>>
    /\ UNCHANGED <<attVars, authVars, gradeVars, reportVars, writerVars, sideVars>>

\* The Activate button of a row: handleActivate.mutate(quarter.id).  It is
\* shown for a row the client's list holds as inactive and that is not the
\* client's stored active quarter, and disabled while the mutation is pending.
\* The list is a cached read: any quarter ever inserted can stand in it as
\* inactive, since every quarter is inserted inactive.
handleActivateMutate(c, id) ==
    /\ activation[c].st = "idle"
    /\ id \in created
    /\ id # quarterStore[c].id
    /\ activation' = [activation EXCEPT ![c] = [st |-> "started", id |-> id,
                                                 row |-> NoQuarter]]
    /\ UNCHANGED <<quarters, created, quarterStore>>
    /\ UNCHANGED <<attVars, authVars, gradeVars, reportVars, writerVars>>

ActivateClick(c, id) == handleActivateMutate(c, id) /\ UNCHANGED sideVars

\* update({active: false}).neq("id", quarterId)
deactivateOthers(table, id) ==
    [q \in DOMAIN table |->
       IF q # id THEN [table[q] EXCEPT !.active = FALSE] ELSE table[q]]

\* update({active: true}).eq("id", quarterId)
activateTarget(table, id) ==
    [q \in DOMAIN table |->
       IF q = id THEN [table[q] EXCEPT !.active = TRUE] ELSE table[q]]

\* The store applies the first call of handleActivate.
StoreDeactivateOthers(c) ==
    /\ activation[c].st = "started"
    /\ quarters' = deactivateOthers(quarters, activation[c].id)
    /\ activation' = [activation EXCEPT ![c].st = "deactivated"]
    /\ UNCHANGED <<created, quarterStore>>
    /\ UNCHANGED <<attVars, authVars, gradeVars, reportVars, writerVars, sideVars>>

\* The store applies the second call; .select().single() fails when the row
\* is gone.
StoreActivateTarget(c) ==
    /\ activation[c].st = "deactivated"
    /\ IF activation[c].id \in DOMAIN quarters
       THEN /\ quarters' = activateTarget(quarters, activation[c].id)
            /\ activation' =
                 [activation EXCEPT
                    ![c].st = "resolved",
                    ![c].row = quarterRow(activation[c].id,
                                          quarters'[activation[c].id])]
       ELSE /\ quarters' = quarters
            /\ activation' = [activation EXCEPT ![c].st = "rejected"]
    /\ UNCHANGED <<created, quarterStore>>
    /\ UNCHANGED <<attVars, authVars, gradeVars, reportVars, writerVars, sideVars>>

\* Either call fails: `if (error) throw new Error(...)`; no later call is made.
StoreRejectActivate(c) ==
    /\ activation[c].st \in {"started", "deactivated"}
    /\ activation' = [activation EXCEPT ![c].st = "rejected"]
    /\ UNCHANGED <<quarters, created, quarterStore>>
    /\ UNCHANGED <<attVars, authVars, gradeVars, reportVars, writerVars, sideVars>>

\* onSuccess: invalidate ["quarters"], setActiveQuarter(updatedQuarter).
ActivateSucceeded(c) ==
    /\ activation[c].st = "resolved"
    /\ quarterStore' = [quarterStore EXCEPT ![c] = activation[c].row]
    /\ activation' = [activation EXCEPT ![c] = IdleActivation]
    /\ UNCHANGED <<quarters, created>>
    /\ UNCHANGED <<attVars, authVars, gradeVars, reportVars, writerVars, sideVars>>

\* The mutation ends in error.
ActivateFailed(c) ==
    /\ activation[c].st = "rejected"
    /\ activation' = [activation EXCEPT ![c] = IdleActivation]
    /\ UNCHANGED <<quarters, created, quarterStore>>
    /\ UNCHANGED <<attVars, authVars, gradeVars, reportVars, writerVars, sideVars>>

\* Two quarters exist, at most one of them active, and each client's store
\* either is empty or holds the active one.
InitQuarters ==
    /\ \E act \in SUBSET {"q1", "q2"} :
         /\ Cardinality(act) <= 1
         /\ quarters = [q \in {"q1", "q2"} |-> [form |-> FirstForm, active |-> q \in act]]
         /\ \E held \in [Clients -> {""} \cup act] :
              quarterStore = [c \in Clients |->
                                IF held[c] = "" THEN NoQuarter
                                ELSE quarterRow(held[c], quarters[held[c]])]
    /\ created = {"q1", "q2"}
    /\ activation = [c \in Clients |-> IdleActivation]

(***************************************************************************)
(* AuthProvider, ProtectedRoute, SignIn and the router.                    *)
(***************************************************************************)
Null == "(null)"
NoRow == "(no row)"
NoCookie == [present |-> FALSE, role |-> Null]

\* The role column of the user's row: the five roles, an empty and an
\* unknown string, SQL null; or the row is missing.
RemoteRoles ==
    {"pending", "student", "teacher", "coordinator", "admin", "", "guest", Null, NoRow}

ProtectedPaths == {"/dashboard", "/dashboard/users"}
PublicPaths == {"/", "/pending-activation"}

Spinner == [kind |-> "spinner", to |-> ""]
Navigate(to) == [kind |-> "navigate", to |-> to]
Outlet(path) == [kind |-> "outlet", to |-> path]

\* ProtectedRoute, rendered for a request of a protected path.
ProtectedRouteNoPending(u, r, l, path) ==
    IF l THEN Spinner
    ELSE IF u = Null THEN Navigate("/")
    ELSE IF r = "admin" THEN Outlet(path)
    ELSE IF r \in {"student", "teacher", "coordinator"} THEN Outlet(path)
    ELSE Navigate("/")

ProtectedRouteAnyString(u, r, l, path) ==
    IF l THEN Spinner
    ELSE IF u = Null THEN Navigate("/")
    ELSE IF r = "admin" THEN Outlet(path)
    ELSE IF r = "pending" THEN Navigate("/pending-activation")
    ELSE IF r # Null THEN Outlet(path)
    ELSE Navigate("/")

ProtectedRoute(u, r, l, path) ==
    IF l THEN Spinner
    ELSE IF u = Null THEN Navigate("/")
    ELSE IF r = "admin" THEN Outlet(path)
    ELSE IF r = "pending" THEN Navigate("/pending-activation")
    ELSE IF r # Null /\ r \in {"student", "teacher", "coordinator"} THEN Outlet(path)
    ELSE Navigate("/")

\* What the router shows at the current location.
Rendered ==
    IF location \in ProtectedPaths THEN ProtectedRoute(user, role, loading, location)
    ELSE [kind |-> "page", to |-> location]

\* The redirect count restarts when the auth context changes.
resetOnAuthChange ==
    redirects' = IF <<user', role', loading'>> = <<user, role, loading>>
                 THEN redirects ELSE 0

\* fetchUser() up to its first await: the cookie, when there is one, sets
\* session, user and role and ends the loading.
FetchUserStart ==
    /\ fetchUser = "start"
    /\ IF cookie.present
       THEN /\ session' = "s1"
            /\ user' = "u1"
            /\ role' = cookie.role
            /\ loading' = FALSE
            /\ fetchUser' = "done"
       ELSE /\ fetchUser' = "getSession"
            /\ UNCHANGED <<session, user, role, loading>>
    /\ UNCHANGED <<cookie, authSession, usersRole, roleFetches, authEvents,
                   location, lastNav>>
    /\ resetOnAuthChange
    /\ UNCHANGED <<attVars, quarterVars, gradeVars, reportVars, writerVars, sideVars>>

\* supabase.auth.getSession() resolves.
FetchUserGotSession ==
    /\ fetchUser = "getSession"
    /\ IF authSession
       THEN /\ session' = "s1"
            /\ user' = "u1"
            /\ fetchUser' = "role"
            /\ UNCHANGED loading
       ELSE /\ loading' = FALSE
            /\ fetchUser' = "done"
            /\ UNCHANGED <<session, user>>
    /\ UNCHANGED <<role, cookie, authSession, usersRole, roleFetches, authEvents,
                   location, lastNav>>
    /\ resetOnAuthChange
    /\ UNCHANGED <<attVars, quarterVars, gradeVars, reportVars, writerVars, sideVars>>

\* The role read of fetchUser resolves with a row.
FetchUserGotRole ==
    /\ fetchUser = "role"
    /\ usersRole # NoRow
    /\ role' = usersRole
    /\ cookie' = [present |-> TRUE, role |-> usersRole]
    /\ loading' = FALSE
    /\ fetchUser' = "done"
    /\ UNCHANGED <<user, session, authSession, usersRole, roleFetches, authEvents,
                   location, lastNav>>
    /\ resetOnAuthChange
    /\ UNCHANGED <<attVars, quarterVars, gradeVars, reportVars, writerVars, sideVars>>

\* The role read fails and the loading flag is left as it is.
FetchUserRoleErrorKeepsLoading ==
    /\ fetchUser = "role"
    /\ fetchUser' = "done"
    /\ UNCHANGED <<user, session, role, loading, cookie, authSession, usersRole,
                   roleFetches, authEvents, location, lastNav>>
    /\ resetOnAuthChange
    /\ UNCHANGED <<attVars, quarterVars, gradeVars, reportVars, writerVars, sideVars>>

\* The role read of fetchUser resolves with an error (no row, or the call
\* failed): the role stays as it is.
FetchUserRoleError ==
    /\ fetchUser = "role"
    /\ loading' = FALSE
    /\ fetchUser' = "done"
    /\ UNCHANGED <<user, session, role, cookie, authSession, usersRole,
                   roleFetches, authEvents, location, lastNav>>
    /\ resetOnAuthChange
    /\ UNCHANGED <<attVars, quarterVars, gradeVars, reportVars, writerVars, sideVars>>

\* The most auth state changes a run sees.
MaxAuthEvents == 2

\* The onAuthStateChange callback, up to its await, for an event that carries
\* a session (signedIn) or none.
onAuthStateChange(signedIn) ==
    /\ IF signedIn
       THEN /\ user' = "u1"
            /\ roleFetches' = roleFetches + 1
            /\ UNCHANGED <<session, role, cookie>>
       ELSE /\ session' = Null
            /\ user' = Null
            /\ role' = Null
            /\ cookie' = NoCookie
            /\ UNCHANGED roleFetches
    /\ authEvents' = authEvents + 1
    /\ UNCHANGED <<loading, usersRole, fetchUser, location, lastNav>>
    /\ resetOnAuthChange
    /\ UNCHANGED <<attVars, quarterVars, gradeVars, reportVars, writerVars, sideVars>>

\* The user signs in: signInWithPassword, then the SIGNED_IN event.
SignedIn ==
    /\ fetchUser # "start"
    /\ authEvents < MaxAuthEvents
    /\ ~authSession
    /\ authSession' = TRUE
    /\ onAuthStateChange(TRUE)

\* The user signs out (Sidebar handleLogout), then the SIGNED_OUT event.
SignedOut ==
    /\ fetchUser # "start"
    /\ authEvents < MaxAuthEvents
    /\ authSession
    /\ authSession' = FALSE
    /\ onAuthStateChange(FALSE)

\* INITIAL_SESSION or TOKEN_REFRESHED: an event for the session as it is.
SessionEvent ==
    /\ fetchUser # "start"
    /\ authEvents < MaxAuthEvents
    /\ authSession' = authSession
    /\ onAuthStateChange(authSession)

\* A role read of the listener resolves with a row.
ListenerGotRole ==
    /\ roleFetches > 0
    /\ usersRole # NoRow
    /\ role' = usersRole
    /\ cookie' = [present |-> TRUE, role |-> usersRole]
    /\ roleFetches' = roleFetches - 1
    /\ UNCHANGED <<user, session, loading, authSession, usersRole, fetchUser,
                   authEvents, location, lastNav>>
    /\ resetOnAuthChange
    /\ UNCHANGED <<attVars, quarterVars, gradeVars, reportVars, writerVars, sideVars>>

\* A role read of the listener resolves with an error.
ListenerRoleError ==
    /\ roleFetches > 0
    /\ roleFetches' = roleFetches - 1
    /\ UNCHANGED <<user, session, role, loading, cookie, authSession, usersRole,
                   fetchUser, authEvents, location, lastNav, redirects>>
    /\ UNCHANGED <<attVars, quarterVars, gradeVars, reportVars, writerVars, sideVars>>

\* The user opens a path (address bar or link).
UserNavigate(path) ==
    /\ path \in ProtectedPaths \cup PublicPaths
    /\ path # location
    /\ location' = path
    /\ lastNav' = "user"
    /\ redirects' = 0
    /\ UNCHANGED <<user, session, role, loading, cookie, authSession, usersRole,
                   fetchUser, roleFetches, authEvents>>
    /\ UNCHANGED <<attVars, quarterVars, gradeVars, reportVars, writerVars, sideVars>>

\* The most redirects to "/" the guard is followed through for one request.
MaxRedirects == 2

\* <Navigate to=... replace /> rendered by ProtectedRoute takes effect.
GuardRedirect ==
    /\ location \in ProtectedPaths
    /\ Rendered.kind = "navigate"
    /\ redirects < MaxRedirects
    /\ location' = Rendered.to
    /\ lastNav' = "guard"
    /\ redirects' = IF Rendered.to = "/" THEN redirects + 1 ELSE redirects
    /\ UNCHANGED <<user, session, role, loading, cookie, authSession, usersRole,
                   fetchUser, roleFetches, authEvents>>
    /\ UNCHANGED <<attVars, quarterVars, gradeVars, reportVars, writerVars, sideVars>>

\* SignIn's effect: if (!authLoading && user) navigate("/dashboard", {replace: true}).
SignInRedirect ==
    /\ location = "/"
    /\ ~loading
    /\ user # Null
    /\ location' = "/dashboard"
    /\ lastNav' = "signin"
    /\ UNCHANGED <<user, session, role, loading, cookie, authSession, usersRole,
                   fetchUser, roleFetches, authEvents, redirects>>
    /\ UNCHANGED <<attVars, quarterVars, gradeVars, reportVars, writerVars, sideVars>>

\* The page is opened at some path; a cookie of an earlier visit may be there.
InitAuth ==
    /\ user = Null
    /\ session = Null
    /\ role = Null
    /\ loading = TRUE
    /\ usersRole \in RemoteRoles
    /\ cookie \in {NoCookie} \cup
                  (IF usersRole = NoRow THEN {}
                   ELSE {[present |-> TRUE, role |-> usersRole]})
    /\ authSession \in BOOLEAN
    /\ fetchUser = "start"
    /\ roleFetches = 0
    /\ authEvents = 0
    /\ location \in ProtectedPaths \cup PublicPaths
    /\ lastNav = "user"
    /\ redirects = 0

(***************************************************************************)
(* Grading page: the Grading component of src/pages/ClassroomDetails.tsx.  *)
(* One grading record per (student, classroom, quarter): read with         *)
(* .single(), written with an upsert on the three-part key.                *)
(***************************************************************************)
Skills == {"listening", "reading", "writing", "speaking", "grammar_vocab",
           "project", "conversation"}

FormFields == Skills \cup {"comment"}

KeyFields == {"student_id", "classroom_id", "quarter_id"}

\* The values the effect resets the form to when there is no record.
ZeroForm == [f \in FormFields |-> IF f = "comment" THEN "" ELSE 0]

\* gradingSchema: each score is z.number().min(0).max(100); the fields it rejects.
invalidFieldsNone(form) == {}

invalidFields(form) == {f \in Skills : form[f] < 0 \/ form[f] > 100}

\* The query data while there is none, and the data of a read that found no row.
Undefined == [absent |-> "undefined"]
NullData == [absent |-> "null"]

\* queryKey: ["grades", selectedStudent, selectedClassroom, activeQuarter?.id]
gradeKey(s, c, q) == <<"grades", s, c, q.id>>

currentGradeKey == gradeKey(selectedStudent, gradeClassroom, activeQuarter)

\* enabled: !!selectedStudent && !!selectedClassroom && !!activeQuarter?.id
gradeEnabled(s, c, q) == s # "" /\ c # "" /\ q.id # ""

\* onConflict: 'student_id,classroom_id,quarter_id'
gradeConflictKey(r) == <<r.student_id, r.classroom_id, r.quarter_id>>

\* The row the mutation sends: { ...data, classroom_id, student_id, quarter_id }.
gradeRow(form, s, c, q) ==
    [f \in FormFields \cup KeyFields |->
        IF f = "student_id" THEN s
        ELSE IF f = "classroom_id" THEN c
        ELSE IF f = "quarter_id" THEN q.id
        ELSE form[f]]

\* The form values a fetched row resets the form to: { ...existingGrade, ... }.
formOf(row) == [f \in FormFields |-> row[f]]

\* select("*").eq(student).eq(classroom).eq(quarter).single(): the row when
\* exactly one matches, and the error PGRST116 with no data otherwise.
NoRowCode == "PGRST116"

selectSingle(table, key) ==
    LET rows == {r \in BagToSet(table) : gradeConflictKey(r) = <<key[2], key[3], key[4]>>}
    IN  IF Cardinality(rows) = 1 /\ \A r \in rows : CopiesIn(r, table) = 1
        THEN [data |-> CHOOSE r \in rows : TRUE, error |-> ""]
        ELSE [data |-> NullData, error |-> NoRowCode]

\* The errors a read can meet other than "no row".
OtherErrors == {"PGRST301"}

\* queryFn: `if (error && error.code !== 'PGRST116') throw error`
queryFnThrowsAny(error) == error # ""

queryFnThrows(error) == error # "" /\ error # NoRowCode

\* upsert(row, { onConflict }): the row replaces the columns of the row with
\* the same key, or is inserted when there is none.
upsertGradeInsertOnly(table, row) == table (+) SetToBag({row})

upsertGradeKeepExisting(table, row) ==
    IF \E x \in BagToSet(table) : gradeConflictKey(x) = gradeConflictKey(row)
    THEN table
    ELSE table (+) SetToBag({row})

upsertGrade(table, row) ==
    LET same == {x \in BagToSet(table) : gradeConflictKey(x) = gradeConflictKey(row)}
        rest == [x \in BagToSet(table) \ same |-> CopiesIn(x, table)]
        updated == {[f \in DOMAIN x |-> IF f \in DOMAIN row THEN row[f] ELSE x[f]]
                      : x \in same}
    IN  IF same = {} THEN table (+) SetToBag({row})
        ELSE rest (+) SetToBag(updated)

\* The data the page observes for a key.
existingGrade(cache, key) ==
    IF key \in DOMAIN cache THEN cache[key].data ELSE Undefined

\* The form reset effect (deps: existingGrade and the selection): the
\* fetched record when there is one, zero scores and no comment otherwise.
resetFormKeep(existing, form) ==
    IF existing \notin {Undefined, NullData} THEN formOf(existing) ELSE form

resetForm(existing, form) ==
    IF existing \notin {Undefined, NullData} THEN formOf(existing) ELSE ZeroForm

writesOf(history, key) == IF key \in DOMAIN history THEN history[key] ELSE <<>>

\* A read newly sent for a key; it notes how many writes of the key the store
\* had applied when it was sent, and whether an invalidation sent it.
newRead(key, cause) ==
    [st |-> "sent", data |-> Undefined, error |-> "", cause |-> cause,
     seen |-> Len(writesOf(gradeWrites, key))]

\* The observer of a newly observed key fetches it (staleTime 0), unless the
\* query is disabled or a fetch of that key is already in flight.
startGradeFetch(inflight, key, enabled) ==
    IF enabled /\ key \notin DOMAIN inflight
    THEN [k \in DOMAIN inflight \cup {key} |->
            IF k = key THEN newRead(key, "select") ELSE inflight[k]]
    ELSE inflight

\* invalidateQueries of the observed key: a running fetch of it is cancelled
\* and a new one sent.
invalidateGrade(inflight, key, enabled) ==
    IF enabled
    THEN [k \in DOMAIN inflight \cup {key} |->
            IF k = key THEN newRead(key, "invalidate") ELSE inflight[k]]
    ELSE inflight

\* isLoading of the existingGrade query: no data yet and a fetch in flight.
isLoadingGrades ==
    /\ existingGrade(gradeCache, currentGradeKey) = Undefined
    /\ currentGradeKey \in DOMAIN gradeFetches

\* The grading form is rendered (lines 918-925).
GradingFormShown ==
    selectedStudent # "" /\ gradeClassroom # "" /\ ~isLoadingGrades

\* What a change of the selection to (c, s) does: the observed query moves to
\* the new key and the effect resets the form from the data of that key.
GradeReselect(c, s) ==
    LET newKey == gradeKey(s, c, activeQuarter)
    IN  /\ gradeClassroom' = c
        /\ selectedStudent' = s
        /\ gradeForm' = resetForm(existingGrade(gradeCache, newKey), gradeForm)
        /\ formErrors' = {}
        /\ formDirty' = FALSE
        /\ gradeFetches' = startGradeFetch(gradeFetches, newKey,
                                           gradeEnabled(s, c, activeQuarter))
        /\ gradeCounts' = IF s = selectedStudent THEN gradeCounts
                          ELSE [gradeCounts EXCEPT !.selects = @ + 1]
        /\ UNCHANGED <<grading, gradeCache, savingGrade, gradeWrites>>
        /\ UNCHANGED <<attVars, quarterVars, authVars, reportVars, writerVars, sideVars>>

\* <select onChange={(e) => setSelectedClassroom(e.target.value)}>; the
\* selected student stays as it was.
SelectGradeClassroom(c) ==
    /\ c \in DOMAIN classrooms
    /\ c # gradeClassroom
    /\ GradeReselect(c, selectedStudent)

\* The most student selections a run makes.
MaxGradeSelects == 2

\* A student button of the selected classroom: setSelectedStudent(student.id)
SelectStudent(s) ==
    /\ gradeCounts.selects < MaxGradeSelects
    /\ gradeClassroom \in DOMAIN classrooms
    /\ s \in classrooms[gradeClassroom].students
    /\ s # selectedStudent
    /\ GradeReselect(gradeClassroom, s)

\* The user types a value into a field of the form; a field annotated with
\* an error is validated again as it changes.
EditGrade(field, v) ==
    /\ GradingFormShown
    /\ field \in FormFields
    /\ gradeForm[field] # v
    /\ gradeForm' = [gradeForm EXCEPT ![field] = v]
    /\ formErrors' = IF field \in formErrors
                        /\ field \notin invalidFields([gradeForm EXCEPT ![field] = v])
                     THEN formErrors \ {field}
                     ELSE formErrors
    /\ formDirty' = TRUE
    /\ UNCHANGED <<gradeClassroom, selectedStudent, grading, gradeCache,
                   gradeFetches, savingGrade, gradeWrites, gradeCounts>>
    /\ UNCHANGED <<attVars, quarterVars, authVars, reportVars, writerVars, sideVars>>

IdleGrade == [st |-> "idle", row |-> Undefined]

\* The most submits a run makes.
MaxGradeSubmits == 2

\* Save Grades: handleSubmit validates the values against gradingSchema; with
\* an invalid field it annotates the fields and stops, otherwise it calls
\* savingGradeMutation.mutate(data).  The button is disabled while pending.
SubmitGrades ==
    /\ GradingFormShown
    /\ savingGrade.st = "idle"
    /\ gradeCounts.submits < MaxGradeSubmits
    /\ gradeCounts' = [gradeCounts EXCEPT !.submits = @ + 1]
    /\ formErrors' = invalidFields(gradeForm)
    /\ savingGrade' =
         IF invalidFields(gradeForm) # {} THEN savingGrade
         ELSE [st |-> "pending",
               row |-> gradeRow(gradeForm, selectedStudent, gradeClassroom,
                                activeQuarter)]
    /\ UNCHANGED <<gradeClassroom, selectedStudent, gradeForm, grading, gradeCache,
                   gradeFetches, gradeWrites, formDirty>>
    /\ UNCHANGED <<attVars, quarterVars, authVars, reportVars, writerVars, sideVars>>

\* The store applies the upsert of the request in flight.
GradeStoreApply ==
    /\ savingGrade.st = "pending"
    /\ grading' = upsertGrade(grading, savingGrade.row)
    /\ savingGrade' = [savingGrade EXCEPT !.st = "resolved"]
    /\ LET k == <<"grades">> \o gradeConflictKey(savingGrade.row)
       IN  gradeWrites' =
             [x \in DOMAIN gradeWrites \cup {k} |->
                IF x = k THEN Append(writesOf(gradeWrites, k), savingGrade.row)
                ELSE gradeWrites[x]]
    /\ UNCHANGED <<gradeClassroom, selectedStudent, gradeForm, formErrors,
                   gradeCache, gradeFetches, formDirty, gradeCounts>>
    /\ UNCHANGED <<attVars, quarterVars, authVars, reportVars, writerVars, sideVars>>

\* The request fails: `if (error) throw error`.
GradeStoreReject ==
    /\ savingGrade.st = "pending"
    /\ savingGrade' = [savingGrade EXCEPT !.st = "rejected"]
    /\ UNCHANGED <<gradeClassroom, selectedStudent, gradeForm, formErrors, grading,
                   gradeCache, gradeFetches, gradeWrites, formDirty, gradeCounts>>
    /\ UNCHANGED <<attVars, quarterVars, authVars, reportVars, writerVars, sideVars>>

\* useMutation runs onSuccess for a mutation whose mutationFn returned, and
\* nothing for one whose mutationFn threw (no onError, no onSettled, no retry).
onSuccessRunsOnSettled(m) == m.st \in {"resolved", "rejected"}

onSuccessRuns(m) == m.st = "resolved"

\* onSuccess: invalidate ["grades", selectedStudent, selectedClassroom,
\* activeQuarter?.id] as the page holds them when it runs.
GradeSaveSucceeded ==
    /\ onSuccessRuns(savingGrade)
    /\ savingGrade' = IdleGrade
    /\ gradeFetches' = invalidateGrade(gradeFetches, currentGradeKey,
                         gradeEnabled(selectedStudent, gradeClassroom, activeQuarter))
    /\ UNCHANGED <<gradeClassroom, selectedStudent, gradeForm, formErrors, grading,
                   gradeCache, gradeWrites, formDirty, gradeCounts>>
    /\ UNCHANGED <<attVars, quarterVars, authVars, reportVars, writerVars, sideVars>>

\* The mutation ends in error: nothing is invalidated, nothing retried.
GradeSaveFailed ==
    /\ savingGrade.st = "rejected"
    /\ ~onSuccessRuns(savingGrade)
    /\ savingGrade' = IdleGrade
    /\ UNCHANGED <<gradeClassroom, selectedStudent, gradeForm, formErrors, grading,
                   gradeCache, gradeFetches, gradeWrites, formDirty, gradeCounts>>
    /\ UNCHANGED <<attVars, quarterVars, authVars, reportVars, writerVars, sideVars>>

\* The store answers a read in flight from the rows it holds.
GradeFetchAnswered(k) ==
    /\ k \in DOMAIN gradeFetches
    /\ gradeFetches[k].st = "sent"
    /\ LET answer == selectSingle(grading, k)
       IN  gradeFetches' = [gradeFetches EXCEPT
                              ![k].st = "answered",
                              ![k].data = answer.data,
                              ![k].error = answer.error]
    /\ UNCHANGED <<gradeClassroom, selectedStudent, gradeForm, formErrors, grading,
                   gradeCache, savingGrade, gradeWrites, formDirty, gradeCounts>>
    /\ UNCHANGED <<attVars, quarterVars, authVars, reportVars, writerVars, sideVars>>

\* The read meets another error (network, permission): no data comes back.
GradeFetchRefused(k, code) ==
    /\ k \in DOMAIN gradeFetches
    /\ gradeFetches[k].st = "sent"
    /\ code \in OtherErrors
    /\ gradeFetches' = [gradeFetches EXCEPT
                          ![k].st = "answered",
                          ![k].data = NullData,
                          ![k].error = code]
    /\ UNCHANGED <<gradeClassroom, selectedStudent, gradeForm, formErrors, grading,
                   gradeCache, savingGrade, gradeWrites, formDirty, gradeCounts>>
    /\ UNCHANGED <<attVars, quarterVars, authVars, reportVars, writerVars, sideVars>>

\* The answer reaches the page: queryFn throws or returns data, the cache
\* takes the outcome, and the effect runs if the observed data changed.
GradeFetchDelivered(k) ==
    /\ k \in DOMAIN gradeFetches
    /\ gradeFetches[k].st = "answered"
    /\ LET answer == gradeFetches[k]
           entry == IF queryFnThrows(answer.error)
                    THEN [data |-> existingGrade(gradeCache, k), status |-> "error"]
                    ELSE [data |-> answer.data, status |-> "success"]
           newCache == [x \in DOMAIN gradeCache \cup {k} |->
                          IF x = k THEN entry ELSE gradeCache[x]]
           changed == existingGrade(newCache, currentGradeKey)
                        # existingGrade(gradeCache, currentGradeKey)
       IN  /\ gradeCache' = newCache
           /\ gradeForm' = IF changed
                           THEN resetForm(existingGrade(newCache, currentGradeKey),
                                          gradeForm)
                           ELSE gradeForm
           /\ formErrors' = IF changed THEN {} ELSE formErrors
           /\ formDirty' = IF changed THEN FALSE ELSE formDirty
    /\ gradeFetches' = [x \in DOMAIN gradeFetches \ {k} |-> gradeFetches[x]]
    /\ UNCHANGED <<gradeClassroom, selectedStudent, grading, savingGrade,
                   gradeWrites, gradeCounts>>
    /\ UNCHANGED <<attVars, quarterVars, authVars, reportVars, writerVars, sideVars>>

\* The values the runs type: scores inside and outside 0..100, and comments.
GradeEdits ==
    {<<"listening", 65>>, <<"listening", 101>>, <<"listening", -1>>,
     <<"comment", "ok">>}

\* The record the first student has before the page is opened.
FirstGrade ==
    gradeRow([f \in FormFields |-> IF f = "comment" THEN "old" ELSE 80],
             "s1", "A", [id |-> "q1"])

InitGrading ==
    /\ gradeClassroom = ""
    /\ selectedStudent = ""
    /\ gradeForm = ZeroForm
    /\ formErrors = {}
    /\ grading = SetToBag({FirstGrade})
    /\ gradeCache = NoFunction
    /\ gradeFetches = NoFunction
    /\ savingGrade = IdleGrade
    /\ gradeWrites = NoFunction
    /\ formDirty = FALSE
    /\ gradeCounts = [submits |-> 0, selects |-> 0]

(***************************************************************************)
(* Reports page (src/pages/Reports.tsx): the attendance pivot, its date    *)
(* cells and the cells of the grading table.  A string whose characters    *)
(* the code inspects (a status) is the sequence of its characters; a null  *)
(* status is NullStatus and a null score the empty tuple, a score v <<v>>. *)
(***************************************************************************)
UpperCase == <<"A", "B", "C", "D", "E", "F", "G", "H", "I", "J", "K", "L", "M",
               "N", "O", "P", "Q", "R", "S", "T", "U", "V", "W", "X", "Y", "Z">>

LowerCase == <<"a", "b", "c", "d", "e", "f", "g", "h", "i", "j", "k", "l", "m",
               "n", "o", "p", "q", "r", "s", "t", "u", "v", "w", "x", "y", "z">>

lowerChar(ch) ==
    IF \E i \in DOMAIN UpperCase : UpperCase[i] = ch
    THEN LowerCase[CHOOSE i \in DOMAIN UpperCase : UpperCase[i] = ch]
    ELSE ch

upperChar(ch) ==
    IF \E i \in DOMAIN LowerCase : LowerCase[i] = ch
    THEN UpperCase[CHOOSE i \in DOMAIN LowerCase : LowerCase[i] = ch]
    ELSE ch

NullStatus == <<"(null)">>

\* The data of the attendance read while there is none.
NoData == <<[absent |-> "undefined"]>>

\* status?.toLowerCase()
toLowerCase(s) ==
    IF s = NullStatus THEN NullStatus ELSE [i \in DOMAIN s |-> lowerChar(s[i])]

\* status.charAt(0).toUpperCase()
firstCharUpper(s) == IF s = <<>> THEN "" ELSE upperChar(s[1])

\* The strings the code names.
NoRecord == <<"N", "o", " ", "R", "e", "c", "o", "r", "d">>
Present == <<"p", "r", "e", "s", "e", "n", "t">>
Absent == <<"a", "b", "s", "e", "n", "t">>
Tardy == <<"t", "a", "r", "d", "y">>
Late == <<"l", "a", "t", "e">>

\* Is a yyyy-MM-dd string before another in the order of Array.prototype.sort().
StringLess(a, b) ==
    \/ a[1] < b[1]
    \/ a[1] = b[1] /\ a[2] < b[2]
    \/ a[1] = b[1] /\ a[2] = b[2] /\ a[3] < b[3]

\* [...new Set(values)].sort(): the distinct values in ascending order.
RECURSIVE sortedDistinct(_)
sortedDistinct(values) ==
    IF values = {} THEN <<>>
    ELSE LET least == CHOOSE v \in values : \A w \in values \ {v} : StringLess(v, w)
         IN  <<least>> \o sortedDistinct(values \ {least})

\* studentsMap: the joined student of each student_id, in the order of its
\* first appearance; a later row of the same student_id replaces the value.
RECURSIVE studentsMapKeys(_, _)
studentsMapKeys(data, keys) ==
    IF data = <<>> THEN keys
    ELSE LET record == Head(data)
             known  == \E i \in DOMAIN keys : keys[i] = record.student_id
         IN  studentsMapKeys(Tail(data),
                             IF record.student # NullData /\ ~known
                             THEN Append(keys, record.student_id)
                             ELSE keys)

studentsMapValue(data, id) ==
    LET last == CHOOSE i \in DOMAIN data :
                  /\ data[i].student_id = id /\ data[i].student # NullData
                  /\ \A j \in DOMAIN data :
                       (data[j].student_id = id /\ data[j].student # NullData) => j <= i
    IN  data[last].student

\* attendanceData.find(record => record.student_id === student.id &&
\* record.class_date === date): the first such row, or none.
findRecord(data, studentId, date) ==
    LET hits == {i \in DOMAIN data :
                   data[i].student_id = studentId /\ data[i].class_date = date}
    IN  IF hits = {} THEN Undefined
        ELSE data[CHOOSE i \in hits : \A j \in hits : i <= j]

\* attendanceRecord?.status || 'No Record'
cellStatusAlwaysRecorded(record) ==
    IF record = Undefined THEN NoRecord ELSE record.status

cellStatus(record) ==
    IF record = Undefined \/ record.status = NullStatus \/ record.status = <<>>
    THEN NoRecord
    ELSE record.status

\* attendanceReportData: the pivot of the rows read.
attendanceReport(data) ==
    IF data = NoData \/ data = <<>> THEN [data |-> <<>>, dates |-> <<>>]
    ELSE LET uniqueDates == sortedDistinct({data[i].class_date : i \in DOMAIN data})
             keys == studentsMapKeys(data, <<>>)
             pivotRow(id) ==
                 LET student == studentsMapValue(data, id)
                 IN  [student_id |-> student.id,
                      student_name |-> <<student.first_name, " ", student.last_name>>,
                      cells |-> [d \in {uniqueDates[i] : i \in DOMAIN uniqueDates} |->
                                   cellStatus(findRecord(data, student.id, d))]]
         IN  [data |-> [i \in DOMAIN keys |-> pivotRow(keys[i])],
              dates |-> uniqueDates]

\* The cell renderer of a date column: the letter shown and its colour.
dateCellNoAlias(status) ==
    LET statusLower == toLowerCase(status)
    IN  IF statusLower = Present THEN [displayValue |-> "P", className |-> "green"]
        ELSE IF statusLower = Absent THEN [displayValue |-> "A", className |-> "red"]
        ELSE IF statusLower = Tardy THEN [displayValue |-> "T", className |-> "yellow"]
        ELSE IF status # NullStatus /\ status # <<>> /\ status # NoRecord
             THEN [displayValue |-> firstCharUpper(status), className |-> "blue"]
        ELSE [displayValue |-> "-", className |-> "gray"]

dateCell(status) ==
    LET statusLower == toLowerCase(status)
    IN  IF statusLower = Present THEN [displayValue |-> "P", className |-> "green"]
        ELSE IF statusLower = Absent THEN [displayValue |-> "A", className |-> "red"]
        ELSE IF statusLower = Late \/ statusLower = Tardy
             THEN [displayValue |-> "T", className |-> "yellow"]
        ELSE IF status # NullStatus /\ status # <<>> /\ status # NoRecord
             THEN [displayValue |-> firstCharUpper(status), className |-> "blue"]
        ELSE [displayValue |-> "-", className |-> "gray"]

\* A score cell of the grading table: value !== null && value < 70
NullScore == <<>>

isLowGradeInclusive(value) == value # NullScore /\ value[1] <= 70

isLowGrade(value) == value # NullScore /\ value[1] < 70

\* gradingColumns: the seven score columns, each with the same cell.
gradingCell(row, skill) ==
    [flagged |-> isLowGrade(row[skill]),
     text |-> IF row[skill] = NullScore THEN "N/A" ELSE row[skill][1]]

\* The attendance rows a read of the report can return: two students with
\* their joined record, two dates, and a row whose student join is missing.
ReportStudents ==
    [A |-> [id |-> "A", first_name |-> "Ann", last_name |-> "Lee"],
     B |-> [id |-> "B", first_name |-> "Bo", last_name |-> "Ng"]]

ReportDates == {<<2024, 1, 3>>, <<2024, 1, 10>>}

ReportStatuses ==
    {Present, <<"P", "r", "e", "s", "e", "n", "t">>, Absent,
     <<"T", "A", "R", "D", "Y">>, Late, <<"e", "x", "c", "u", "s", "e", "d">>,
     <<"n", "o", " ", "r", "e", "c", "o", "r", "d">>, NoRecord, <<>>, NullStatus}

ReportRows ==
    {[class_date |-> d, status |-> st, student_id |-> s, student |-> ReportStudents[s]]
        : d \in ReportDates, st \in ReportStatuses, s \in DOMAIN ReportStudents}
    \cup {[class_date |-> <<2024, 1, 10>>, status |-> Present, student_id |-> "C",
           student |-> NullData]}

\* The most rows a read of the report returns.
MaxReportRows == 2

\* The reads of the report: up to MaxReportRows rows.
ReportReads ==
    UNION {[1..n -> ReportRows] : n \in 0..MaxReportRows}

\* .order("class_date", { ascending: true }): the rows come back by date.
orderedByDate(data) ==
    \A i, j \in DOMAIN data : i < j => ~StringLess(data[j].class_date, data[i].class_date)

\* The attendance read resolves with rows; the memo recomputes the pivot.
AttendanceReportLoaded ==
    /\ attendanceData = NoData
    /\ \E data \in ReportReads :
         /\ orderedByDate(data)
         /\ attendanceData' = data
         /\ attendanceReportData' = attendanceReport(data)
    /\ UNCHANGED gradingData
    /\ UNCHANGED <<attVars, quarterVars, authVars, gradeVars, writerVars, sideVars>>

\* The scores of a row of the grading report.
ReportScores == {NullScore, <<0>>, <<65>>, <<69>>, <<70>>, <<71>>, <<100>>}

\* Rows in which two skills have any score each and the other five share a score.
GradingReportRows ==
    {[f \in Skills |-> IF f = one THEN u ELSE IF f = other THEN v ELSE w]
        : one \in Skills, other \in Skills,
          u \in ReportScores, v \in ReportScores, w \in ReportScores}

\* The grading read resolves with one row per student.
GradingReportLoaded ==
    /\ gradingData = <<>>
    /\ \E row \in GradingReportRows : gradingData' = <<row>>
    /\ UNCHANGED <<attendanceData, attendanceReportData>>
    /\ UNCHANGED <<attVars, quarterVars, authVars, gradeVars, writerVars, sideVars>>

InitReports ==
    /\ attendanceData = NoData
    /\ attendanceReportData = attendanceReport(NoData)
    /\ gradingData = <<>>

(***************************************************************************)
(* Two clients saving the same rows: each runs the mutationFn of Save      *)
(* Attendance or of Save Grades, and the store applies the upserts in the  *)
(* order they reach it.                                                    *)
(***************************************************************************)
IdleUpsert == [st |-> "idle", table |-> "", records |-> {}]

\* The status maps and form values the two clients save.
WriterMaps ==
    {[s \in {"s1"} |-> "present"], [s \in {"s1"} |-> "absent"],
     [s \in {"s1", "s2"} |-> "tardy"]}

WriterForms ==
    {[ZeroForm EXCEPT !["listening"] = 65],
     [ZeroForm EXCEPT !["listening"] = 90, !["comment"] = "ok"],
     [ZeroForm EXCEPT !["project"] = 100]}

WriterDate == <<2024, 1, 2>>

\* The most upserts the store applies in a run.
MaxUpserts == 4

appliedCount ==
    LET RECURSIVE total(_)
        total(keys) ==
            IF keys = {} THEN 0
            ELSE LET k == CHOOSE x \in keys : TRUE
                 IN  Len(applied[k]) + total(keys \ {k})
    IN  total(DOMAIN applied)

\* saveAttendanceMutation.mutationFn of client c: the records of its map.
SendAttendance(c, map) ==
    /\ upserts[c].st = "idle"
    /\ upserts' = [upserts EXCEPT ![c] =
                     [st |-> "pending", table |-> "attendance",
                      records |-> buildRecords("A", WriterDate, activeQuarter, map,
                                               classrooms)]]
    /\ UNCHANGED applied
    /\ UNCHANGED <<attVars, quarterVars, authVars, gradeVars, reportVars, sideVars>>

\* savingGradeMutation.mutationFn of client c: the row of its form.
SendGrade(c, form) ==
    /\ upserts[c].st = "idle"
    /\ upserts' = [upserts EXCEPT ![c] =
                     [st |-> "pending", table |-> "grading",
                      records |-> {gradeRow(form, "s1", "A", activeQuarter)}]]
    /\ UNCHANGED applied
    /\ UNCHANGED <<attVars, quarterVars, authVars, gradeVars, reportVars, sideVars>>

writeKey(table, r) ==
    IF table = "attendance" THEN <<table>> \o conflictKey(r)
    ELSE <<table>> \o gradeConflictKey(r)

\* The store applies the upsert of client c.
StoreApplyUpsert(c) ==
    /\ upserts[c].st = "pending"
    /\ appliedCount < MaxUpserts
    /\ upserts' = [upserts EXCEPT ![c].st = "resolved"]
    /\ IF upserts[c].table = "attendance"
       THEN /\ attendance' = upsert(attendance, upserts[c].records)
            /\ grading' = grading
       ELSE /\ grading' = upsertGrade(grading, CHOOSE r \in upserts[c].records : TRUE)
            /\ attendance' = attendance
    /\ LET keys == {writeKey(upserts[c].table, r) : r \in upserts[c].records}
           rowOf(k) == CHOOSE r \in upserts[c].records : writeKey(upserts[c].table, r) = k
       IN  applied' =
             [k \in DOMAIN applied \cup keys |->
                IF k \in keys
                THEN Append(IF k \in DOMAIN applied THEN applied[k] ELSE <<>>,
                            [by |-> c, row |-> rowOf(k)])
                ELSE applied[k]]
    /\ UNCHANGED <<activeQuarter, classrooms, selectedClassroom, selectedDate,
                   attendanceRecords, classDates, queryCache, fetches, saveMutation,
                   staleStatus, saves>>
    /\ UNCHANGED <<gradeClassroom, selectedStudent, gradeForm, formErrors,
                   gradeCache, gradeFetches, savingGrade, gradeWrites, formDirty,
                   gradeCounts>>
    /\ UNCHANGED <<quarterVars, authVars, reportVars, sideVars>>

\* The mutation of client c settles; its Save button is enabled again.
UpsertSettled(c) ==
    /\ upserts[c].st = "resolved"
    /\ upserts' = [upserts EXCEPT ![c] = IdleUpsert]
    /\ UNCHANGED applied
    /\ UNCHANGED <<attVars, quarterVars, authVars, gradeVars, reportVars, sideVars>>

InitWriters ==
    /\ upserts = [c \in Clients |-> IdleUpsert]
    /\ applied = NoFunction

(***************************************************************************)
(* The persisted quarter store and its startup fetch, for the client c1:   *)
(* useQuarterStore (src/store/quartersStore.ts) and useInitActiveQuarter,  *)
(* called once by App.                                                     *)
(***************************************************************************)
Me == "c1"

\* Before the effect has run for the first time.
NeverRan == [id |-> "(never ran)"]

\* useEffect(..., [activeQuarter, fetchActiveQuarter]): the effect runs after
\* the first render and after a render in which activeQuarter has changed;
\* it calls fetchActiveQuarter() when the store holds no quarter.  The call
\* runs up to its await: set({ isLoading: true }) and the read is sent.
InitEffectAlways ==
    /\ effectSeen # quarterStore[Me]
    /\ effectSeen' = quarterStore[Me]
    /\ storeLoading' = TRUE
    /\ initFetch' = "sent"
    /\ initFetches' = initFetches + 1
    /\ UNCHANGED activeBefore
    /\ UNCHANGED <<attVars, quarterVars, authVars, gradeVars, reportVars, writerVars,
                   notStoreVars>>

InitEffect ==
    /\ effectSeen # quarterStore[Me]
    /\ effectSeen' = quarterStore[Me]
    /\ IF quarterStore[Me] = NoQuarter
       THEN /\ storeLoading' = TRUE
            /\ initFetch' = "sent"
            /\ initFetches' = initFetches + 1
       ELSE UNCHANGED <<storeLoading, initFetch, initFetches>>
    /\ UNCHANGED activeBefore
    /\ UNCHANGED <<attVars, quarterVars, authVars, gradeVars, reportVars, writerVars,
                   notStoreVars>>

\* .select("*").eq("active", true).single() answers with the one active row:
\* set({ activeQuarter: data, isLoading: false }).
InitFetchSucceeded ==
    /\ initFetch = "sent"
    /\ Cardinality(activeIds(quarters)) = 1
    /\ LET id == CHOOSE q \in activeIds(quarters) : TRUE
       IN  quarterStore' = [quarterStore EXCEPT ![Me] = quarterRow(id, quarters[id])]
    /\ storeLoading' = FALSE
    /\ initFetch' = "idle"
    /\ UNCHANGED <<effectSeen, initFetches, activeBefore>>
    /\ UNCHANGED <<quarters, created, activation>>
    /\ UNCHANGED <<attVars, authVars, gradeVars, reportVars, writerVars, notStoreVars>>

\* The read answers with an error: no active row or several (.single()), or
\* the call failed.  `if (error) { set({ isLoading: false }); return; }`
InitFetchFailed ==
    /\ initFetch = "sent"
    /\ storeLoading' = FALSE
    /\ initFetch' = "idle"
    /\ UNCHANGED <<effectSeen, initFetches, activeBefore>>
    /\ UNCHANGED <<attVars, quarterVars, authVars, gradeVars, reportVars, writerVars,
                   notStoreVars>>

\* The Activate button, clicked on this client.
ActivateClickMe(id) ==
    /\ handleActivateMutate(Me, id)
    /\ activeBefore' = activeIds(quarters)
    /\ UNCHANGED <<storeLoading, initFetch, effectSeen, initFetches>>
    /\ UNCHANGED notStoreVars

\* The state of create(): isLoading true, no fetch made, the effect not run.
StoreAtRest ==
    /\ storeLoading = TRUE
    /\ initFetch = "idle"
    /\ effectSeen = NeverRan
    /\ initFetches = 0
    /\ activeBefore = {}

(***************************************************************************)
(* Users page and the register-student / register-teacher routes.          *)
(***************************************************************************)
UserIds == {"u1", "u2"}

UsersPage == [page |-> "users", userId |-> ""]

\* The most profile rows inserted in a run.
MaxProfiles == 2

\* fetchUsers: the users of role pending, student and teacher, the latter
\* two with isRegistered from the user_id columns of students and teachers.
fetchUsers(users, rows) ==
    [u \in {x \in DOMAIN users : users[x] \in {"pending", "student", "teacher"}} |->
        [role |-> users[u],
         isRegistered |->
            \E r \in BagToSet(rows) :
                r.user_id = u /\ r.table = (IF users[u] = "student" THEN "students"
                                            ELSE "teachers")]]

\* The ["users"] query resolves (first load, or refetch after invalidation).
UsersFetched ==
    /\ regRoute = UsersPage
    /\ usersData' = fetchUsers(usersTable, profiles)
    /\ usersData' # usersData
    /\ UNCHANGED <<usersTable, profiles, regRoute>>
    /\ UNCHANGED <<attVars, quarterVars, authVars, gradeVars, reportVars, writerVars,
                   notRegVars>>

\* The Student / Teacher / Coordinator button of a row shown as pending:
\* update({ role: newRole }).eq("id", userId).
updateRole(u, newRole) ==
    /\ regRoute = UsersPage
    /\ u \in DOMAIN usersData
    /\ usersData[u].role = "pending"
    /\ newRole \in {"student", "teacher", "coordinator"}
    /\ usersTable' = [usersTable EXCEPT ![u] = newRole]
    /\ UNCHANGED <<profiles, usersData, regRoute>>
    /\ UNCHANGED <<attVars, quarterVars, authVars, gradeVars, reportVars, writerVars,
                   notRegVars>>

\* The Register button of a row shown as student or teacher and not registered.
RegisterClick(u) ==
    /\ regRoute = UsersPage
    /\ u \in DOMAIN usersData
    /\ usersData[u].role # "pending"
    /\ ~usersData[u].isRegistered
    /\ regRoute' = [page |-> IF usersData[u].role = "student"
                             THEN "register-student" ELSE "register-teacher",
                    userId |-> u]
    /\ UNCHANGED <<usersTable, profiles, usersData>>
    /\ UNCHANGED <<attVars, quarterVars, authVars, gradeVars, reportVars, writerVars,
                   notRegVars>>

\* The routes users/register-student/:userId and users/register-teacher/:userId
\* opened by their address: useParams() gives the id, nothing reads the role.
OpenRegisterRoute(page, u) ==
    /\ page \in {"register-student", "register-teacher"}
    /\ regRoute # [page |-> page, userId |-> u]
    /\ regRoute' = [page |-> page, userId |-> u]
    /\ UNCHANGED <<usersTable, profiles, usersData>>
    /\ UNCHANGED <<attVars, quarterVars, authVars, gradeVars, reportVars, writerVars,
                   notRegVars>>

\* StudentForm.onSubmit (and the teacher form): insert({ user_id: userId, ...data }).
onSubmit ==
    /\ regRoute # UsersPage
    /\ BagCardinality(profiles) < MaxProfiles
    /\ profiles' = profiles (+) SetToBag({[table |-> IF regRoute.page = "register-student"
                                                      THEN "students" ELSE "teachers",
                                            user_id |-> regRoute.userId]})
    /\ UNCHANGED <<usersTable, usersData, regRoute>>
    /\ UNCHANGED <<attVars, quarterVars, authVars, gradeVars, reportVars, writerVars,
                   notRegVars>>

\* Back, or the redirect a second after a successful registration.
BackToUsers ==
    /\ regRoute # UsersPage
    /\ regRoute' = UsersPage
    /\ UNCHANGED <<usersTable, profiles, usersData>>
    /\ UNCHANGED <<attVars, quarterVars, authVars, gradeVars, reportVars, writerVars,
                   notRegVars>>

\* Two users who have signed up, a profile table with no rows, the Users
\* page open with its list not yet loaded.
InitUsers ==
    /\ usersTable = [u \in UserIds |-> "pending"]
    /\ profiles = EmptyBag
    /\ usersData = NoFunction
    /\ regRoute = UsersPage

(***************************************************************************)
(* downloadPDF of the Reports page.                                        *)
(***************************************************************************)
\* The most clicks on Download in a run.
MaxDownloads == 3

\* `${reportType}_Report_${classroomName}_${monthLabel}.pdf`, for the one
\* classroom and month of the model.
filename(reportType) == <<reportType, "Report", "A1", "March">>

\* No downloadPDF call is running.
NoDownload == [at |-> "idle", file |-> <<>>]

\* The report type select.
setReportType(t) ==
    /\ t # pdfReportType
    /\ pdfReportType' = t
    /\ UNCHANGED <<isDownloading, pdfStep, pdfFilters, pdfAlerts, pdfSaved, pdfClicks>>
    /\ UNCHANGED <<attVars, quarterVars, authVars, gradeVars, reportVars, writerVars,
                   notPdfVars>>

\* A classroom and a month get selected, or one of them is cleared: the
\* Download button and the report (reportRef) are rendered only with both.
setFilters(b) ==
    /\ b # pdfFilters
    /\ pdfFilters' = b
    /\ UNCHANGED <<isDownloading, pdfStep, pdfReportType, pdfAlerts, pdfSaved, pdfClicks>>
    /\ UNCHANGED <<attVars, quarterVars, authVars, gradeVars, reportVars, writerVars,
                   notPdfVars>>

\* downloadPDF up to its first await: the button is rendered and enabled,
\* reportRef.current is the report; setIsDownloading(true), toPng called.
downloadPDF ==
    /\ pdfFilters
    /\ ~isDownloading
    /\ pdfStep.at = "idle"
    /\ pdfClicks < MaxDownloads
    /\ pdfClicks' = pdfClicks + 1
    /\ isDownloading' = TRUE
    /\ pdfStep' = [at |-> "toPng", file |-> filename(pdfReportType)]
    /\ UNCHANGED <<pdfReportType, pdfFilters, pdfAlerts, pdfSaved>>
    /\ UNCHANGED <<attVars, quarterVars, authVars, gradeVars, reportVars, writerVars,
                   notPdfVars>>

\* toPng resolves with a data URL: img.src = dataUrl, then the wait for
\* img.onload begins.
toPngResolved ==
    /\ pdfStep.at = "toPng"
    /\ pdfStep' = [pdfStep EXCEPT !.at = "image"]
    /\ UNCHANGED <<isDownloading, pdfReportType, pdfFilters, pdfAlerts, pdfSaved, pdfClicks>>
    /\ UNCHANGED <<attVars, quarterVars, authVars, gradeVars, reportVars, writerVars,
                   notPdfVars>>

\* toPng rejects: catch alerts, finally resets isDownloading.
toPngRejected ==
    /\ pdfStep.at = "toPng"
    /\ pdfAlerts' = pdfAlerts + 1
    /\ isDownloading' = FALSE
    /\ pdfStep' = NoDownload
    /\ UNCHANGED <<pdfReportType, pdfFilters, pdfSaved, pdfClicks>>
    /\ UNCHANGED <<attVars, quarterVars, authVars, gradeVars, reportVars, writerVars,
                   notPdfVars>>

\* img.onload fires: the PDF is built and saved under the file name computed
\* at the click, or jsPDF throws and catch alerts; then finally.
imageLoaded(pdfThrows) ==
    /\ pdfStep.at = "image"
    /\ IF pdfThrows
       THEN pdfAlerts' = pdfAlerts + 1 /\ UNCHANGED pdfSaved
       ELSE pdfSaved' = Append(pdfSaved, pdfStep.file) /\ UNCHANGED pdfAlerts
    /\ isDownloading' = FALSE
    /\ pdfStep' = NoDownload
    /\ UNCHANGED <<pdfReportType, pdfFilters, pdfClicks>>
    /\ UNCHANGED <<attVars, quarterVars, authVars, gradeVars, reportVars, writerVars,
                   notPdfVars>>

\* The image fails to load: the error event fires, img.onload never does,
\* and the promise awaited has no other way to settle.
imageError ==
    /\ pdfStep.at = "image"
    /\ pdfStep' = [pdfStep EXCEPT !.at = "awaiting onload"]
    /\ UNCHANGED <<isDownloading, pdfReportType, pdfFilters, pdfAlerts, pdfSaved, pdfClicks>>
    /\ UNCHANGED <<attVars, quarterVars, authVars, gradeVars, reportVars, writerVars,
                   notPdfVars>>

InitDownload ==
    /\ isDownloading = FALSE
    /\ pdfStep = NoDownload
    /\ pdfReportType = "Attendance"
    /\ pdfFilters = FALSE
    /\ pdfAlerts = 0
    /\ pdfSaved = <<>>
    /\ pdfClicks = 0

(***************************************************************************)
(* Table-based Reports screen: the month select and the fetchReportData    *)
(* effect.                                                                 *)
(***************************************************************************)
\* The ["quarters"] query data.
TblQuarters ==
    [tq1 |-> [start_date |-> <<2024, 1, 15>>, end_date |-> <<2024, 3, 10>>],
     tq2 |-> [start_date |-> <<2024, 12, 20>>, end_date |-> <<2025, 1, 5>>],
     tq3 |-> [start_date |-> <<2024, 2, 10>>, end_date |-> <<2024, 2, 20>>],
     tq4 |-> [start_date |-> <<2024, 5, 10>>, end_date |-> <<2024, 5, 5>>]]

TblClassrooms == {"A", "B"}
TblReportTypes == {"attendance", "grades"}

\* The most selections made in a run.
MaxTblSelects == 4

\* new Date(year, monthIndex, day) at local midnight: a monthIndex of 12
\* rolls into the next year, day 0 is the last day of the month before.
newDate(year, monthIndex, day) ==
    parseISO(<<year + monthIndex \div 12, (monthIndex % 12) + 1, 1>>) + day - 1

\* format(date, "yyyy-MM")
formatYM(date) == <<formatYMD(date)[1], formatYMD(date)[2]>>

\* The while loop of getAvailableMonths.
RECURSIVE monthsLoop(_, _, _)
monthsLoop(currentDate, endDate, months) ==
    IF currentDate <= endDate
    THEN LET monthKey == formatYM(currentDate)
             pushed   == IF \E i \in 1..Len(months) : months[i] = monthKey
                         THEN months ELSE Append(months, monthKey)
         IN  monthsLoop(newDate(monthKey[1], (monthKey[2] - 1) + 1, 1), endDate, pushed)
    ELSE months

\* getAvailableMonths(): the month keys offered for the selected quarter.
getAvailableMonths(selectedQuarter) ==
    IF selectedQuarter = "" \/ selectedQuarter \notin DOMAIN TblQuarters
    THEN <<>>
    ELSE monthsLoop(parseISO(TblQuarters[selectedQuarter].start_date),
                    parseISO(TblQuarters[selectedQuarter].end_date), <<>>)

\* The month range without the adjustment to the quarter boundaries.
monthRangeOfCalendarMonth(quarter, selectedMonth) ==
    [startDate |-> formatYMD(newDate(selectedMonth[1], selectedMonth[2] - 1, 1)),
     endDate |-> formatYMD(newDate(selectedMonth[1], selectedMonth[2], 0))]

\* fetchReportData: startDateStr and endDateStr of the selected month within
\* the quarter.
monthRange(quarter, selectedMonth) ==
    LET quarterStartDate == parseISO(quarter.start_date)
        quarterEndDate   == parseISO(quarter.end_date)
        monthStart       == newDate(selectedMonth[1], selectedMonth[2] - 1, 1)
        monthEnd         == newDate(selectedMonth[1], selectedMonth[2], 0)
        monthStartDate   == IF monthStart < quarterStartDate THEN quarterStartDate
                            ELSE monthStart
        monthEndDate     == IF monthEnd > quarterEndDate THEN quarterEndDate ELSE monthEnd
    IN  [startDate |-> formatYMD(monthStartDate), endDate |-> formatYMD(monthEndDate)]

NoReport == [students |-> <<>>]

\* students is defined: the query is enabled and has data for its key.
studentsDefined(c, t, loaded) == c # "" /\ <<c, t>> \in loaded

\* The values a fetchReportData call closes over, with its date range.
reportCall(c, q, m, t) ==
    [classroom |-> c, quarter |-> q, month |-> m, reportType |-> t,
     range |-> monthRange(TblQuarters[q], m)]

\* The fetchReportData effect run for the values of a render: the early
\* return with setReportData(null), or a query sent.
fetchReportData(c, q, m, t, loaded) ==
    IF c = "" \/ q = "" \/ m = <<>> \/ ~studentsDefined(c, t, loaded)
    THEN /\ reportData' = NoReport
         /\ UNCHANGED tblInflight
    ELSE /\ tblInflight' = tblInflight \cup {reportCall(c, q, m, t)}
         /\ UNCHANGED reportData

\* The classroom select.
tblSetSelectedClassroom(c) ==
    /\ tblSelects < MaxTblSelects
    /\ c # tblClassroom
    /\ tblSelects' = tblSelects + 1
    /\ tblClassroom' = c
    /\ fetchReportData(c, tblQuarter, tblMonth, tblReportType, tblStudents)
    /\ UNCHANGED <<tblQuarter, tblMonth, tblReportType, tblStudents>>
    /\ UNCHANGED <<attVars, quarterVars, authVars, gradeVars, reportVars, writerVars,
                   notTblVars>>

\* The quarter select: setSelectedQuarter(value); setSelectedMonth("").
tblSetSelectedQuarter(q) ==
    /\ tblSelects < MaxTblSelects
    /\ q # tblQuarter
    /\ tblSelects' = tblSelects + 1
    /\ tblQuarter' = q
    /\ tblMonth' = <<>>
    /\ fetchReportData(tblClassroom, q, <<>>, tblReportType, tblStudents)
    /\ UNCHANGED <<tblClassroom, tblReportType, tblStudents>>
    /\ UNCHANGED <<attVars, quarterVars, authVars, gradeVars, reportVars, writerVars,
                   notTblVars>>

\* The month select, its options those of getAvailableMonths().
tblSetSelectedMonth(i) ==
    /\ tblSelects < MaxTblSelects
    /\ i \in 1..Len(getAvailableMonths(tblQuarter))
    /\ getAvailableMonths(tblQuarter)[i] # tblMonth
    /\ tblSelects' = tblSelects + 1
    /\ tblMonth' = getAvailableMonths(tblQuarter)[i]
    /\ fetchReportData(tblClassroom, tblQuarter, tblMonth', tblReportType, tblStudents)
    /\ UNCHANGED <<tblClassroom, tblQuarter, tblReportType, tblStudents>>
    /\ UNCHANGED <<attVars, quarterVars, authVars, gradeVars, reportVars, writerVars,
                   notTblVars>>

\* The report type select.
tblSetReportType(t) ==
    /\ tblSelects < MaxTblSelects
    /\ t # tblReportType
    /\ tblSelects' = tblSelects + 1
    /\ tblReportType' = t
    /\ fetchReportData(tblClassroom, tblQuarter, tblMonth, t, tblStudents)
    /\ UNCHANGED <<tblClassroom, tblQuarter, tblMonth, tblStudents>>
    /\ UNCHANGED <<attVars, quarterVars, authVars, gradeVars, reportVars, writerVars,
                   notTblVars>>

\* The students query of the current key resolves; students changes and the
\* effect runs again.
tblStudentsLoaded ==
    /\ tblClassroom # ""
    /\ <<tblClassroom, tblReportType>> \notin tblStudents
    /\ tblStudents' = tblStudents \cup {<<tblClassroom, tblReportType>>}
    /\ fetchReportData(tblClassroom, tblQuarter, tblMonth, tblReportType, tblStudents')
    /\ UNCHANGED <<tblClassroom, tblQuarter, tblMonth, tblReportType, tblSelects>>
    /\ UNCHANGED <<attVars, quarterVars, authVars, gradeVars, reportVars, writerVars,
                   notTblVars>>

\* The attendance or grading query of a fetchReportData call resolves, with
\* rows or with an error (then with empty records): setReportData of the
\* students, dates and quarter of that call.
setReportData(call, failed) ==
    /\ tblInflight' = tblInflight \ {call}
    /\ reportData' = [students |-> [classroom |-> call.classroom,
                                     reportType |-> call.reportType,
                                     records |-> IF failed THEN <<>>
                                                 ELSE <<call.classroom, call.reportType,
                                                        call.range>>],
                      startDate |-> call.range.startDate,
                      endDate |-> call.range.endDate,
                      quarter |-> call.quarter,
                      month |-> call.month]
    /\ UNCHANGED <<tblClassroom, tblQuarter, tblMonth, tblReportType, tblStudents, tblSelects>>
    /\ UNCHANGED <<attVars, quarterVars, authVars, gradeVars, reportVars, writerVars,
                   notTblVars>>

\* Any one of the outstanding calls resolves next.
tblFetchResolved ==
    \E call \in tblInflight, failed \in BOOLEAN : setReportData(call, failed)

InitTableReports ==
    /\ tblClassroom = ""
    /\ tblQuarter = ""
    /\ tblMonth = <<>>
    /\ tblReportType = "attendance"
    /\ tblStudents = {}
    /\ tblInflight = {}
    /\ reportData = NoReport
    /\ tblSelects = 0

(***************************************************************************)
(* Sign-up: the auth account, then the users row.                          *)
(***************************************************************************)
SignUpEmails == {"ana@example.org", "ben@example.org", "eva@example.org"}

NoSignUp == [step |-> "idle", email |-> ""]

\* The most submissions of the form in a run.
MaxSignUps == 3

\* onSubmit up to its first await: supabase.auth.signUp is called.
SignUpSubmit(email) ==
    /\ signUpCall = NoSignUp
    /\ signUps < MaxSignUps
    /\ signUps' = signUps + 1
    /\ signUpLoading' = TRUE
    /\ signUpError' = FALSE
    /\ signUpSuccess' = FALSE
    /\ signUpCall' = [step |-> "auth.signUp", email |-> email]
    /\ UNCHANGED <<authAccounts, pendingRows>>
    /\ UNCHANGED <<attVars, quarterVars, authVars, gradeVars, reportVars, writerVars,
                   notSignUpVars>>

\* auth.signUp creates the account and returns its user: the insert into
\* "users" is sent.
AuthSignUpCreated ==
    /\ signUpCall.step = "auth.signUp"
    /\ signUpCall.email \notin authAccounts
    /\ authAccounts' = authAccounts \cup {signUpCall.email}
    /\ signUpCall' = [signUpCall EXCEPT !.step = "users.insert"]
    /\ UNCHANGED <<pendingRows, signUpLoading, signUpError, signUpSuccess, signUps>>
    /\ UNCHANGED <<attVars, quarterVars, authVars, gradeVars, reportVars, writerVars,
                   notSignUpVars>>

\* auth.signUp returns an error (the email is registered, the network
\* fails): throw, catch sets the error, finally ends loading.
AuthSignUpError ==
    /\ signUpCall.step = "auth.signUp"
    /\ signUpError' = TRUE
    /\ signUpLoading' = FALSE
    /\ signUpCall' = NoSignUp
    /\ UNCHANGED <<authAccounts, pendingRows, signUpSuccess, signUps>>
    /\ UNCHANGED <<attVars, quarterVars, authVars, gradeVars, reportVars, writerVars,
                   notSignUpVars>>

\* The insert of the row with role "pending" succeeds: setSuccess.
UsersInsertDone ==
    /\ signUpCall.step = "users.insert"
    /\ pendingRows' = pendingRows \cup {signUpCall.email}
    /\ signUpSuccess' = TRUE
    /\ signUpLoading' = FALSE
    /\ signUpCall' = NoSignUp
    /\ UNCHANGED <<authAccounts, signUpError, signUps>>
    /\ UNCHANGED <<attVars, quarterVars, authVars, gradeVars, reportVars, writerVars,
                   notSignUpVars>>

\* The insert returns an error: throw dbError, catch sets the error.
UsersInsertError ==
    /\ signUpCall.step = "users.insert"
    /\ signUpError' = TRUE
    /\ signUpLoading' = FALSE
    /\ signUpCall' = NoSignUp
    /\ UNCHANGED <<authAccounts, pendingRows, signUpSuccess, signUps>>
    /\ UNCHANGED <<attVars, quarterVars, authVars, gradeVars, reportVars, writerVars,
                   notSignUpVars>>

InitSignUp ==
    /\ authAccounts = {}
    /\ pendingRows = {}
    /\ signUpCall = NoSignUp
    /\ signUpLoading = FALSE
    /\ signUpError = FALSE
    /\ signUpSuccess = FALSE
    /\ signUps = 0

SideAtRest == StoreAtRest /\ InitUsers /\ InitDownload /\ InitTableReports /\ InitSignUp

(***************************************************************************)
(* Specifications: each subsystem runs while the others stand still.       *)
(***************************************************************************)
QuartersAtRest ==
    /\ quarters = [q \in {"q1"} |-> [form |-> FirstForm, active |-> TRUE]]
    /\ created = {"q1"}
    /\ activation = [c \in Clients |-> IdleActivation]
    /\ quarterStore = [c \in Clients |-> NoQuarter]

AuthAtRest ==
    /\ user = "u1"
    /\ session = "s1"
    /\ role = "admin"
    /\ loading = FALSE
    /\ cookie = [present |-> TRUE, role |-> "admin"]
    /\ authSession = TRUE
    /\ usersRole = "admin"
    /\ fetchUser = "done"
    /\ roleFetches = 0
    /\ authEvents = 0
    /\ location = "/dashboard"
    /\ lastNav = "user"
    /\ redirects = 0

\* The Grading page, the Reports page and the second writer stand still.
OthersAtRest == InitGrading /\ InitReports /\ InitWriters /\ SideAtRest

InitAttendance == InitAttendancePage /\ QuartersAtRest /\ AuthAtRest /\ OthersAtRest
NextAttendance ==
    \/ \E c \in DOMAIN classrooms : SelectClassroom(c)
    \/ \E i \in 1..Len(classDates) : SelectDate(i)
    \/ \E click \in Clicks : handleStatusChange(click[1], click[2])
    \/ SaveClick
    \/ StoreApplySave
    \/ StoreRejectSave
    \/ SaveSucceeded
    \/ SaveFailed
    \/ \E k \in DOMAIN fetches : FetchSucceeded(k)
    \/ \E k \in DOMAIN fetches : FetchFailed(k)
SpecAttendance == InitAttendance /\ [][NextAttendance]_vars

InitDates == InitDatesPage /\ QuartersAtRest /\ AuthAtRest /\ OthersAtRest
NextDates ==
    \/ \E c \in DOMAIN classrooms : SelectClassroom(c)
    \/ \E i \in 1..Len(classDates) : SelectDate(i)
SpecDates == InitDates /\ [][NextDates]_vars

InitQuartersPage == InitPage({NoQuarter}, {AttClassrooms}) /\ InitQuarters /\ AuthAtRest /\ OthersAtRest
NextQuarters ==
    \/ \E id \in QuarterIds, form \in QuarterForms : createQuarter(id, form)
    \/ \E id \in QuarterIds, form \in QuarterForms : handleUpdate(id, form)
    \/ \E id \in QuarterIds : handleDelete(id)
    \/ \E c \in Clients, id \in QuarterIds : ActivateClick(c, id)
    \/ \E c \in Clients : StoreDeactivateOthers(c)
    \/ \E c \in Clients : StoreActivateTarget(c)
    \/ \E c \in Clients : StoreRejectActivate(c)
    \/ \E c \in Clients : ActivateSucceeded(c)
    \/ \E c \in Clients : ActivateFailed(c)
SpecQuarters == InitQuartersPage /\ [][NextQuarters]_vars

InitRouting == InitPage({NoQuarter}, {AttClassrooms}) /\ QuartersAtRest /\ InitAuth /\ OthersAtRest
NextRouting ==
    \/ FetchUserStart
    \/ FetchUserGotSession
    \/ FetchUserGotRole
    \/ FetchUserRoleError
    \/ SignedIn
    \/ SignedOut
    \/ SessionEvent
    \/ ListenerGotRole
    \/ ListenerRoleError
    \/ \E path \in ProtectedPaths \cup PublicPaths : UserNavigate(path)
    \/ GuardRedirect
    \/ SignInRedirect
SpecRouting == InitRouting /\ [][NextRouting]_vars

\* Every remote call of fetchUser resolves: the effect runs at mount, and
\* each continuation of fetchUser runs once the promise it awaits settles.
FairFetchUser ==
    /\ WF_vars(FetchUserStart)
    /\ WF_vars(FetchUserGotSession)
    /\ WF_vars(FetchUserGotRole \/ FetchUserRoleError)
SpecRoutingFair == SpecRouting /\ FairFetchUser

\* One client: its startup, its writes on the Quarters page and its store.
InitQuarterStore == InitPage({NoQuarter}, {AttClassrooms}) /\ InitQuarters /\ AuthAtRest /\ OthersAtRest
NextQuarterStore ==
    \/ InitEffect
    \/ InitFetchSucceeded
    \/ InitFetchFailed
    \/ \E id \in QuarterIds, form \in QuarterForms : createQuarter(id, form)
    \/ \E id \in QuarterIds, form \in QuarterForms : handleUpdate(id, form)
    \/ \E id \in QuarterIds : handleDelete(id)
    \/ \E id \in QuarterIds : ActivateClickMe(id)
    \/ StoreDeactivateOthers(Me)
    \/ StoreActivateTarget(Me)
    \/ StoreRejectActivate(Me)
    \/ ActivateSucceeded(Me)
    \/ ActivateFailed(Me)
SpecQuarterStore == InitQuarterStore /\ [][NextQuarterStore]_vars

InitUsersPage ==
    InitPage(AttQuarters, {AttClassrooms}) /\ QuartersAtRest /\ AuthAtRest
    /\ OthersAtRest
NextUsers ==
    \/ UsersFetched
    \/ \E u \in UserIds, r \in {"student", "teacher", "coordinator"} : updateRole(u, r)
    \/ \E u \in UserIds : RegisterClick(u)
    \/ \E u \in UserIds, page \in {"register-student", "register-teacher"} :
          OpenRegisterRoute(page, u)
    \/ onSubmit
    \/ BackToUsers
SpecUsers == InitUsersPage /\ [][NextUsers]_vars

InitDownloadPage ==
    InitPage(AttQuarters, {AttClassrooms}) /\ QuartersAtRest /\ AuthAtRest /\ OthersAtRest
NextDownload ==
    \/ \E t \in {"Attendance", "Grading"} : setReportType(t)
    \/ \E b \in BOOLEAN : setFilters(b)
    \/ downloadPDF
    \/ toPngResolved
    \/ toPngRejected
    \/ \E pdfThrows \in BOOLEAN : imageLoaded(pdfThrows)
    \/ imageError
SpecDownload == InitDownloadPage /\ [][NextDownload]_vars
\* Every promise of the browser settles when it can: toPng resolves or
\* rejects, the image fires load or error.
FairDownload ==
    /\ WF_vars(toPngResolved \/ toPngRejected)
    /\ WF_vars((\E pdfThrows \in BOOLEAN : imageLoaded(pdfThrows)) \/ imageError)
SpecDownloadFair == SpecDownload /\ FairDownload

InitTableReportsPage ==
    InitPage(AttQuarters, {AttClassrooms}) /\ QuartersAtRest /\ AuthAtRest /\ OthersAtRest
NextTableReports ==
    \/ \E c \in TblClassrooms : tblSetSelectedClassroom(c)
    \/ \E q \in DOMAIN TblQuarters : tblSetSelectedQuarter(q)
    \/ \E i \in 1..3 : tblSetSelectedMonth(i)
    \/ \E t \in TblReportTypes : tblSetReportType(t)
    \/ tblStudentsLoaded
    \/ tblFetchResolved
SpecTableReports == InitTableReportsPage /\ [][NextTableReports]_vars

InitSignUpPage ==
    InitPage(AttQuarters, {AttClassrooms}) /\ QuartersAtRest /\ AuthAtRest /\ OthersAtRest
NextSignUp ==
    \/ \E email \in SignUpEmails : SignUpSubmit(email)
    \/ AuthSignUpCreated
    \/ AuthSignUpError
    \/ UsersInsertDone
    \/ UsersInsertError
SpecSignUp == InitSignUpPage /\ [][NextSignUp]_vars

InitGradingPage ==
    InitPage(AttQuarters, {AttClassrooms}) /\ QuartersAtRest /\ AuthAtRest
    /\ OthersAtRest
NextGrading ==
    \/ \E c \in DOMAIN classrooms : SelectGradeClassroom(c)
    \/ \E s \in {"s1", "s2"} : SelectStudent(s)
    \/ \E e \in GradeEdits : EditGrade(e[1], e[2])
    \/ SubmitGrades
    \/ GradeStoreApply
    \/ GradeStoreReject
    \/ GradeSaveSucceeded
    \/ GradeSaveFailed
    \/ \E k \in DOMAIN gradeFetches : GradeFetchAnswered(k)
    \/ \E k \in DOMAIN gradeFetches, code \in OtherErrors : GradeFetchRefused(k, code)
    \/ \E k \in DOMAIN gradeFetches : GradeFetchDelivered(k)
SpecGrading == InitGradingPage /\ [][NextGrading]_vars

\* The reads of the attendance report, of up to MaxReportRows rows.
InitAttendanceReport ==
    InitPage(AttQuarters, {AttClassrooms}) /\ QuartersAtRest /\ AuthAtRest
    /\ OthersAtRest
NextAttendanceReport ==
    \/ AttendanceReportLoaded
SpecAttendanceReport == InitAttendanceReport /\ [][NextAttendanceReport]_vars

InitGradingReport ==
    InitPage(AttQuarters, {AttClassrooms}) /\ QuartersAtRest /\ AuthAtRest
    /\ OthersAtRest
NextGradingReport ==
    \/ GradingReportLoaded
SpecGradingReport == InitGradingReport /\ [][NextGradingReport]_vars

InitTwoWriters ==
    InitPage(AttQuarters, {AttClassrooms}) /\ QuartersAtRest /\ AuthAtRest
    /\ OthersAtRest
NextTwoWriters ==
    \/ \E c \in Clients, map \in WriterMaps : SendAttendance(c, map)
    \/ \E c \in Clients, form \in WriterForms : SendGrade(c, form)
    \/ \E c \in Clients : StoreApplyUpsert(c)
    \/ \E c \in Clients : UpsertSettled(c)
SpecTwoWriters == InitTwoWriters /\ [][NextTwoWriters]_vars

(***************************************************************************)
(* Properties of the schedule derivation and of the Attendance page.       *)
(***************************************************************************)

\* The dates of [D1, D2] on a weekday of the schedule that are no weekend day
\* and no break date, as yyyy-MM-dd values.
scheduledDates(quarter, days) ==
    {formatYMD(n) : n \in
        {k \in parseISO(quarter.start_date)..parseISO(quarter.end_date) :
            /\ formatEEEE(k) \in days
            /\ formatEEEE(k) \notin {"Saturday", "Sunday"}
            /\ formatYMD(k) \notin quarter.break_dates}}

\* C1: the dates offered for the selected classroom are exactly the dates of
\* the active quarter on a weekday of its schedule that are neither weekend
\* days nor break dates, ascending and without duplicates.
C1_OfferedDatesAreScheduled ==
    (PageShown /\ selectedClassroom \in DOMAIN classrooms) =>
        LET off == offeredDates(classDates)
        IN  /\ \A i \in 1..Len(off) : \A j \in 1..Len(off) :
                 i < j => (DateLeq(off[i], off[j]) /\ off[i] # off[j])
            /\ {off[i] : i \in 1..Len(off)}
                 = scheduledDates(activeQuarter, classrooms[selectedClassroom].days)

\* A step in which the store applies the save in flight.
StoreApplies == saveMutation.st = "pending" /\ saveMutation'.st = "resolved"

\* C7: a save whose records the store already holds (a repeated save of the
\* same status map for the same selection) leaves the table as it was, with
\* exactly one row for each key sent.
C7_SaveIdempotent ==
    [][(StoreApplies /\ \A r \in saveMutation.records : BagIn(r, attendance))
        => /\ attendance' = attendance
           /\ \A r \in saveMutation.records :
                /\ CopiesIn(r, attendance') = 1
                /\ \A x \in BagToSet(attendance') :
                     conflictKey(x) = conflictKey(r) => x = r]_vars

\* C7 witness: the store has applied a non-empty save all of whose records it
\* held already.
C7_Witness == saveMutation.st = "resolved" /\ saveMutation.again

\* C8: every stored attendance row has a class_date of the active quarter on
\* a weekday of its classroom's schedule, no weekend day and no break date.
C8_RecordDatesAreScheduled ==
    \A r \in BagToSet(attendance) :
        /\ r.quarter_id = activeQuarter.id
        /\ r.classroom_id \in DOMAIN classrooms
        /\ r.class_date \in scheduledDates(activeQuarter, classrooms[r.classroom_id].days)

\* C9: the status map holds no status that was clicked or loaded for an
\* earlier selection, at any moment, also while the read of the new selection
\* is pending or has failed.
C9_MapBelongsToSelection == staleStatus = {}

\* The records of a save, from the selection and the map it was clicked with.
sentRecords(c, d, q, map) ==
    {r \in [classroom_id : {c}, student_id : DOMAIN map, class_date : {d},
            quarter_id : {q}, status : Statuses] : r.status = map[r.student_id]}

\* C10: a save sends one record for each student holding a status, keyed by the
\* selection at the click, and none for the others; the store then holds
\* each sent record once, no other row with a sent key, and every other row
\* as before.
C10_SaveWritesTheMap ==
    [][/\ (saveMutation.st = "idle" /\ saveMutation'.st = "pending")
            => saveMutation'.records
                 = sentRecords(selectedClassroom, selectedDate, activeQuarter.id,
                               attendanceRecords)
       /\ StoreApplies
            => LET sent == sentRecords(saveMutation.c, saveMutation.d,
                                       saveMutation.q, saveMutation.map)
               IN  \A x \in BagToSet(attendance) \cup BagToSet(attendance') \cup sent :
                     CopiesIn(x, attendance') =
                       IF x \in sent THEN 1
                       ELSE IF \E r \in sent : conflictKey(r) = conflictKey(x) THEN 0
                       ELSE CopiesIn(x, attendance)]_vars

\* C10 witness: the store has applied a save that replaced a stored row by a
\* record of another status, sent while a student of the classroom held no
\* status.
C10_Witness ==
    /\ saveMutation.st = "resolved"
    /\ saveMutation.replaced
    /\ \E s \in classrooms[saveMutation.c].students : s \notin DOMAIN saveMutation.map

(***************************************************************************)
(* Properties of the quarter activation.                                   *)
(***************************************************************************)

\* C2: when the second call of an activation of q succeeds, q is the one
\* quarter of the table that is active.
C2_ActivateLeavesOnlyTarget ==
    [][\A c \in Clients :
         (activation[c].st = "deactivated" /\ activation'[c].st = "resolved")
            => activeIds(quarters') = {activation[c].id}]_vars

\* C3: at most one quarter of the table is active, in every reachable state.
C3_AtMostOneActive == Cardinality(activeIds(quarters)) <= 1

(***************************************************************************)
(* Properties of the role-gated routing.                                   *)
(***************************************************************************)
AdmittedRoles == {"student", "teacher", "coordinator", "admin"}

C5_NoRetryLoop == redirects <= 1

\* C6 as stated: with loading false, a signed-in user is admitted with one of
\* the four roles and redirected to the sign-in path with any other role
\* value; without a user the request is redirected to the sign-in path.
C6_AdmitsFourRolesElseSignIn ==
    ~loading =>
        \A path \in ProtectedPaths :
            LET shown == ProtectedRoute(user, role, loading, path)
            IN  /\ (user # Null /\ role \in AdmittedRoles) => shown = Outlet(path)
                /\ (user # Null /\ role \notin AdmittedRoles) => shown = Navigate("/")
                /\ user = Null => shown = Navigate("/")

\* C6 as amended: with loading false, a signed-in user is admitted with one
\* of the four roles, redirected to /pending-activation with role "pending"
\* and to the sign-in path with any other role value; without a user the
\* request is redirected to the sign-in path.
C6_AdmitsFourRoles ==
    ~loading =>
        \A path \in ProtectedPaths :
            LET shown == ProtectedRoute(user, role, loading, path)
            IN  /\ (user # Null /\ role \in AdmittedRoles) => shown = Outlet(path)
                /\ (user # Null /\ role = "pending")
                     => shown = Navigate("/pending-activation")
                /\ (user # Null /\ role \notin AdmittedRoles \cup {"pending"})
                     => shown = Navigate("/")
                /\ user = Null => shown = Navigate("/")

\* C6 witness: the guard has sent a signed-in user of an unknown role to the
\* sign-in path.
C6_Witness ==
    /\ ~loading
    /\ user # Null
    /\ role = "guest"
    /\ lastNav = "guard"
    /\ location = "/"

(***************************************************************************)
(* Properties of the Grading page.                                         *)
(***************************************************************************)
\* A read of key k is newly sent by an invalidation in this step.
InvalidationSends(k) ==
    /\ k \in DOMAIN gradeFetches'
    /\ gradeFetches'[k].st = "sent"
    /\ gradeFetches'[k].cause = "invalidate"
    /\ (k \notin DOMAIN gradeFetches \/ gradeFetches[k] # gradeFetches'[k])

\* The answer of a read of key k reaches the cache in this step.
Delivers(k) ==
    /\ k \in DOMAIN gradeFetches
    /\ gradeFetches[k].st = "answered"
    /\ k \notin DOMAIN gradeFetches'

gradeRowsOf(k) ==
    {r \in BagToSet(grading) : <<"grades">> \o gradeConflictKey(r) = k}

\* C14: however many times grades were saved for a triple, the table holds
\* exactly one row for it, and that row is the one the latest applied save
\* sent: its seven scores and its comment.
C14_OneRowOfLatestSave ==
    \A k \in DOMAIN gradeWrites :
        LET latest == gradeWrites[k][Len(gradeWrites[k])]
        IN  /\ gradeRowsOf(k) = {latest}
            /\ CopiesIn(latest, grading) = 1
            /\ \A f \in FormFields :
                 \A r \in gradeRowsOf(k) : r[f] = latest[f]

\* C14 witness: two saves of one triple were applied, the second with another
\* score and another comment than the first.
C14_Witness ==
    \E k \in DOMAIN gradeWrites :
        /\ Len(gradeWrites[k]) = 2
        /\ gradeWrites[k][1].listening # gradeWrites[k][2].listening
        /\ gradeWrites[k][1].comment # gradeWrites[k][2].comment

\* A submit of the form happens in this step.
Submits == gradeCounts'.submits = gradeCounts.submits + 1

clamp(v) == IF v < 0 THEN 0 ELSE IF v > 100 THEN 100 ELSE v

\* C15 as stated: every submit stores the scores clamped into 0..100, a score
\* below 0 as 0 and a score above 100 as 100.
C15_ScoresAreClamped ==
    [][Submits =>
         /\ savingGrade'.st = "pending"
         /\ \A f \in Skills : savingGrade'.row[f] = clamp(gradeForm[f])]_vars

\* C15: no stored grading row and no row sent has a score outside 0..100,
\* because a submit with a score outside 0..100 is refused: it sends nothing,
\* stores nothing and annotates the offending fields; a submit with all
\* scores inside 0..100 sends them as they are.
C15_InvalidScoresAreRefused ==
    [][/\ \A r \in BagToSet(grading') : \A f \in Skills : r[f] \in 0..100
       /\ Submits =>
            IF \E f \in Skills : gradeForm[f] \notin 0..100
            THEN /\ savingGrade' = savingGrade
                 /\ grading' = grading
                 /\ formErrors' = {f \in Skills : gradeForm[f] \notin 0..100}
            ELSE /\ savingGrade'.st = "pending"
                 /\ \A f \in Skills : savingGrade'.row[f] = gradeForm[f]]_vars

\* C15 witness: a submit with a score outside 0..100 was refused.
C15_Witness ==
    /\ gradeCounts.submits > 0
    /\ formErrors # {}
    /\ \E f \in formErrors : gradeForm[f] \notin 0..100
    /\ savingGrade.st = "idle"

C17_FetchOrAbsent ==
    [][\A k \in DOMAIN gradeFetches :
         /\ Delivers(k) =>
              /\ gradeFetches[k].error = NoRowCode =>
                   gradeCache'[k] = [data |-> NullData, status |-> "success"]
              /\ gradeFetches[k].error \notin {"", NoRowCode} =>
                   gradeCache'[k].status = "error"
              /\ gradeFetches[k].error = "" =>
                   gradeCache'[k] = [data |-> gradeFetches[k].data,
                                     status |-> "success"]
         /\ (/\ gradeFetches[k].st = "sent"
             /\ k \in DOMAIN gradeFetches'
             /\ gradeFetches'[k].st = "answered"
             /\ gradeFetches'[k].error \notin OtherErrors
             /\ gradeRowsOf(k) = {})
              => /\ gradeFetches'[k].error = NoRowCode
                 /\ gradeFetches'[k].data = NullData]_vars

\* C17 witness: the read of a triple with no row has succeeded with the
\* absent value.
C17_Witness ==
    \E k \in DOMAIN gradeCache :
        /\ gradeCache[k] = [data |-> NullData, status |-> "success"]
        /\ gradeRowsOf(k) = {}

(***************************************************************************)
(* Properties of the Reports page.                                         *)
(***************************************************************************)
\* The pivot row of a student, or none.
pivotRows(id) ==
    {attendanceReportData.data[i] : i \in
        {j \in DOMAIN attendanceReportData.data :
            attendanceReportData.data[j].student_id = id}}

pivotDates == {attendanceReportData.dates[i] : i \in DOMAIN attendanceReportData.dates}

recorded(id, d) ==
    {i \in DOMAIN attendanceData :
        attendanceData[i].student_id = id /\ attendanceData[i].class_date = d}

C13_LowGradeBelow70 ==
    \A i \in DOMAIN gradingData : \A skill \in Skills :
        LET value == gradingData[i][skill]
            cell  == gradingCell(gradingData[i], skill)
        IN  /\ cell.flagged <=> (value # NullScore /\ value[1] - 70 < 0)
            /\ value = <<65>> => cell.flagged
            /\ value = <<70>> => ~cell.flagged
            /\ value = NullScore => ~cell.flagged

\* C13 witness: the table shows a row with a 65, a 70 and a null score.
C13_Witness ==
    \E i \in DOMAIN gradingData :
        /\ \E skill \in Skills : gradingData[i][skill] = <<65>>
        /\ \E skill \in Skills : gradingData[i][skill] = <<70>>
        /\ \E skill \in Skills : gradingData[i][skill] = NullScore

\* Are two strings the same but for the case of their letters.
sameIgnoringCase(a, b) ==
    /\ a # NullStatus
    /\ Len(a) = Len(b)
    /\ \A i \in DOMAIN a : lowerChar(a[i]) = lowerChar(b[i])

\* The cells of the pivot.
pivotCells ==
    {attendanceReportData.data[i].cells[d] :
        i \in DOMAIN attendanceReportData.data, d \in pivotDates}

\* C18 as stated: present, absent and tardy, in any case, show as P green,
\* A red and T yellow; every other non-empty value but the sentinel shows
\* its first character uppercased in blue; the sentinel and the empty value
\* show as "-" in gray.
C18_StatusDisplayAsStated ==
    \A status \in pivotCells \cup {<<>>, NullStatus} :
        dateCell(status) =
            IF sameIgnoringCase(status, Present)
            THEN [displayValue |-> "P", className |-> "green"]
            ELSE IF sameIgnoringCase(status, Absent)
            THEN [displayValue |-> "A", className |-> "red"]
            ELSE IF sameIgnoringCase(status, Tardy)
            THEN [displayValue |-> "T", className |-> "yellow"]
            ELSE IF status \notin {<<>>, NullStatus, NoRecord}
            THEN [displayValue |-> upperChar(status[1]), className |-> "blue"]
            ELSE [displayValue |-> "-", className |-> "gray"]

\* C18: as stated, except that "late", in any case, shows as T yellow like
\* tardy, and is not shown by its first character.
C18_StatusDisplay ==
    \A status \in pivotCells \cup {<<>>, NullStatus} :
        dateCell(status) =
            IF sameIgnoringCase(status, Present)
            THEN [displayValue |-> "P", className |-> "green"]
            ELSE IF sameIgnoringCase(status, Absent)
            THEN [displayValue |-> "A", className |-> "red"]
            ELSE IF sameIgnoringCase(status, Tardy) \/ sameIgnoringCase(status, Late)
            THEN [displayValue |-> "T", className |-> "yellow"]
            ELSE IF status \notin {<<>>, NullStatus, NoRecord}
            THEN [displayValue |-> upperChar(status[1]), className |-> "blue"]
            ELSE [displayValue |-> "-", className |-> "gray"]

\* C18 witness: the pivot has a cell of status "late" and a cell with no record.
C18_Witness ==
    /\ Late \in pivotCells
    /\ NoRecord \in pivotCells

(***************************************************************************)
(* Edge cases of the schedule derivation.                                  *)
(***************************************************************************)
\* The dates tried as an added break date: every day from a week before the
\* start of the quarter to a week after its end.
BreakMargin == 7

addedBreaks(quarter) ==
    {formatYMD(n) : n \in (parseISO(quarter.start_date) - BreakMargin)
                            ..(parseISO(quarter.end_date) + BreakMargin)}

\* C19: the list is empty when the classroom has no days or the quarter
\* starts after it ends, and it stays as it is when a date that is not on a
\* weekday of the schedule, or lies outside the quarter, is added to the
\* break dates.
C19_ScheduleEdgeCases ==
    (PageShown /\ selectedClassroom \in DOMAIN classrooms) =>
        LET days == classrooms[selectedClassroom].days
            startDate == parseISO(activeQuarter.start_date)
            endDate == parseISO(activeQuarter.end_date)
        IN  /\ days = {} => classDates = <<>>
            /\ startDate > endDate => classDates = <<>>
            /\ \A b \in addedBreaks(activeQuarter) :
                 (\/ formatEEEE(parseISO(b)) \notin days
                  \/ parseISO(b) < startDate
                  \/ parseISO(b) > endDate)
                   => computeClassDates(selectedClassroom,
                          [activeQuarter EXCEPT !.break_dates = @ \cup {b}],
                          classrooms) = classDates

\* C19 witness: a classroom with offered dates is selected, in a quarter that
\* has a day inside it that is not a break date and not on the schedule.
C19_Witness ==
    /\ PageShown
    /\ selectedClassroom \in DOMAIN classrooms
    /\ classDates # <<>>
    /\ \E b \in addedBreaks(activeQuarter) :
         /\ b \notin activeQuarter.break_dates
         /\ formatEEEE(parseISO(b)) \notin classrooms[selectedClassroom].days
         /\ parseISO(b) >= parseISO(activeQuarter.start_date)
         /\ parseISO(b) <= parseISO(activeQuarter.end_date)

(***************************************************************************)
(* Two clients writing the same key.                                       *)
(***************************************************************************)
tableRows(k) ==
    IF k[1] = "attendance"
    THEN [rows |-> {r \in BagToSet(attendance) : writeKey("attendance", r) = k},
          table |-> attendance]
    ELSE [rows |-> {r \in BagToSet(grading) : writeKey("grading", r) = k},
          table |-> grading]

\* C20: once no upsert is on its way, each key written holds exactly one row,
\* the row sent by the upsert of that key that the store applied last.
C20_LastWriteWins ==
    (\A c \in Clients : upserts[c].st # "pending") =>
        \A k \in DOMAIN applied :
            LET latest == applied[k][Len(applied[k])].row
            IN  /\ tableRows(k).rows = {latest}
                /\ CopiesIn(latest, tableRows(k).table) = 1

\* C20 witness: the upserts of both clients have resolved, and both wrote an
\* attendance key and a grading key, each with another row than the other.
C20_Witness ==
    /\ \A c \in Clients : upserts[c].st = "resolved"
    /\ \A table \in {"attendance", "grading"} :
         \E k \in DOMAIN applied :
            /\ k[1] = table
            /\ \E i, j \in DOMAIN applied[k] :
                 /\ i < j
                 /\ applied[k][i].by # applied[k][j].by
                 /\ applied[k][i].row # applied[k][j].row

(***************************************************************************)
(* The guard as a state machine.                                           *)
(***************************************************************************)
\* The four states the guard leaves loading for, by the auth context.
guardState(u, r) ==
    IF u = Null THEN "unauthenticated"
    ELSE IF r = "admin" THEN "admin"
    ELSE IF r = "pending" THEN "pending"
    ELSE IF r \in {"student", "teacher", "coordinator"} THEN "active-role"
    ELSE "unauthenticated"

\* What the guard does in each of the four states.
guardOutcome(state, path) ==
    IF state = "unauthenticated" THEN Navigate("/")
    ELSE IF state = "pending" THEN Navigate("/pending-activation")
    ELSE Outlet(path)

\* C24: the guard starts loading; while loading it shows the spinner for
\* every protected path, neither admitting nor redirecting; loading, once
\* false, stays false; when every remote call of fetchUser resolves loading
\* becomes false; and from then on the guard acts as in exactly one of the
\* states unauthenticated, pending, active-role and admin.
C24_GuardLeavesLoading ==
    /\ loading = TRUE
    /\ [](\A path \in ProtectedPaths :
            IF loading
            THEN ProtectedRoute(user, role, loading, path) = Spinner
            ELSE ProtectedRoute(user, role, loading, path)
                   = guardOutcome(guardState(user, role), path))
    /\ [][~loading => ~loading']_vars
    /\ <>(loading = FALSE)

\* C24 witness: fetchUser has read the session and the role from the remote
\* store, loading is over and the guard admits a teacher.
C24_Witness ==
    /\ ~loading
    /\ fetchUser = "done"
    /\ location \in ProtectedPaths
    /\ guardState(user, role) = "active-role"
    /\ Rendered = Outlet(location)

(***************************************************************************)
(* Sign-out against role reads still in flight.                            *)
(***************************************************************************)
\* The last auth state change carried no session, and no role read of
\* fetchUser or of the listener is still in flight.
SignedOutAndSettled ==
    /\ authEvents > 0
    /\ ~authSession
    /\ roleFetches = 0
    /\ fetchUser = "done"

\* C25: once the sign-out event has been processed and every role read has
\* resolved, the context holds no user, no session and no role, and there
\* is no session cookie.
C25_SignedOutContextIsEmpty ==
    SignedOutAndSettled =>
        /\ user = Null
        /\ session = Null
        /\ role = Null
        /\ ~cookie.present

(***************************************************************************)
(* The quarter store: startup fetch, failed activation, agreement.         *)
(***************************************************************************)
\* C23: fetchActiveQuarter is called only while the store holds no quarter
\* and at most once since startup; when the call settles isLoading is false
\* and the store holds what it held or the active row of the remote table;
\* a call that fails changes nothing else, and no call follows a settled one.
C23_FetchedOnceAtStartup ==
    [][/\ initFetches' > initFetches =>
            /\ quarterStore[Me] = NoQuarter
            /\ initFetches = 0
            /\ storeLoading'
       /\ (initFetch = "sent" /\ initFetch' = "idle") =>
            /\ ~storeLoading'
            /\ initFetches' = initFetches
            /\ \/ quarterStore' = quarterStore
               \/ /\ activeIds(quarters) # {}
                  /\ quarterStore'[Me].id \in activeIds(quarters)
                  /\ quarterStore'[Me] = quarterRow(quarterStore'[Me].id,
                                                   quarters[quarterStore'[Me].id])
       /\ (initFetches = 1 /\ initFetch = "idle") => initFetch' = "idle"]_vars

\* C23 witness: the store was empty at startup, the fetch was made and has
\* failed, and the effect has not called again.
C23_Witness ==
    /\ initFetches = 1
    /\ initFetch = "idle"
    /\ ~storeLoading
    /\ quarterStore[Me] = NoQuarter
    /\ effectSeen = NoQuarter

\* C26: when the activation has failed at one of its two calls, the rows of
\* the remote table have the active flags they had when Activate was
\* clicked.
C26_FailedActivationChangesNothing ==
    activation[Me].st = "rejected" =>
        \A q \in DOMAIN quarters : quarters[q].active <=> q \in activeBefore

\* C27: with no activation under way, the quarter the store holds is a row of
\* the remote table and has that row's start date, end date and break dates.
C27_StoreAgreesWithRemote ==
    (quarterStore[Me] # NoQuarter /\ activation[Me].st = "idle") =>
        /\ quarterStore[Me].id \in DOMAIN quarters
        /\ LET row == quarterRow(quarterStore[Me].id, quarters[quarterStore[Me].id])
           IN  /\ quarterStore[Me].start_date = row.start_date
               /\ quarterStore[Me].end_date = row.end_date
               /\ quarterStore[Me].break_dates = row.break_dates

(***************************************************************************)
(* Registration of a profile.                                              *)
(***************************************************************************)
\* C21: no row of students or teachers belongs to a user whose role is
\* "pending".
C21_NoProfileWhilePending ==
    \A r \in BagToSet(profiles) : usersTable[r.user_id] # "pending"

(***************************************************************************)
(* PDF download.                                                           *)
(***************************************************************************)
\* C22: every downloadPDF call ends with isDownloading false again.
C22_DownloadEnds ==
    (isDownloading = TRUE) ~> (isDownloading = FALSE)

(***************************************************************************)
(* Table-based Reports screen.                                             *)
(***************************************************************************)
\* The selection is complete and its students are loaded.
tblSelectionComplete ==
    /\ tblClassroom # "" /\ tblQuarter # "" /\ tblMonth # <<>>
    /\ studentsDefined(tblClassroom, tblReportType, tblStudents)

\* Nothing is outstanding: no report query, and no students query.
tblSettled ==
    /\ tblInflight = {}
    /\ tblClassroom # "" => <<tblClassroom, tblReportType>> \in tblStudents

\* C28: once every fetch has resolved, reportData is that of the current
\* selection of classroom, quarter, month and report type.
C28_ReportDataIsOfLatestSelection ==
    (tblSettled /\ tblSelectionComplete) =>
        /\ reportData # NoReport
        /\ reportData.students.classroom = tblClassroom
        /\ reportData.students.reportType = tblReportType
        /\ reportData.quarter = tblQuarter
        /\ reportData.month = tblMonth

\* The days of a quarter, and those of them in a calendar month.
quarterDays(q) == parseISO(TblQuarters[q].start_date) .. parseISO(TblQuarters[q].end_date)
daysInMonth(q, m) == {d \in quarterDays(q) : formatYM(d) = m}
SeqRange(f) == {f[i] : i \in 1..Len(f)}
YMLess(a, b) == a[1] < b[1] \/ (a[1] = b[1] /\ a[2] < b[2])

\* C30: the months offered for a quarter are the calendar months with a day
\* of the quarter, once each and ascending, and the range queried for an
\* offered month runs from the first to the last day of the quarter in it.
C30_MonthRangeIsIntersection ==
    /\ \A q \in DOMAIN TblQuarters :
          LET months == getAvailableMonths(q)
          IN  /\ SeqRange(months) = {formatYM(d) : d \in quarterDays(q)}
              /\ \A i, j \in 1..Len(months) : i < j => YMLess(months[i], months[j])
    /\ \A call \in tblInflight :
          LET days == daysInMonth(call.quarter, call.month)
          IN  /\ days # {}
              /\ \A d \in days : parseISO(call.range.startDate) <= d
                                   /\ d <= parseISO(call.range.endDate)
              /\ parseISO(call.range.startDate) \in days
              /\ parseISO(call.range.endDate) \in days

\* A range cut at both ends by the quarter is being queried.
C30_Witness ==
    \E call \in tblInflight :
        /\ call.range.startDate = TblQuarters[call.quarter].start_date
        /\ call.range.endDate = TblQuarters[call.quarter].end_date
        /\ call.range.startDate[3] # 1

(***************************************************************************)
(* Sign-up.                                                                *)
(***************************************************************************)
\* C29: with no sign-up running, an email has an auth account exactly when
\* it has a users row of role "pending".
C29_AccountIffPendingRow ==
    signUpCall = NoSignUp =>
        \A email \in SignUpEmails : email \in authAccounts <=> email \in pendingRows

====
